---- MODULE Spec2Model ----
(***************************************************************************)
(* GarminParser (src/src/backend/parsers/garmin_parser.py): discovery of   *)
(* export files, the four single-file parse functions and the historical   *)
(* aggregation parse_all_activities / parse_all_available.                 *)
(* GarminConnector (src/src/backend/connectors/garmin_connect.py): the     *)
(* connection, the cache and the fetchers over the remote service.         *)
(*                                                                         *)
(* A path is a sequence of tokens; a token stands for the piece of text it *)
(* spells.  Tokens are prefix-free and TokenOrder lists them in ASCII      *)
(* order, so comparing token sequences is Python's str comparison.         *)
(***************************************************************************)
EXTENDS Integers, Sequences, FiniteSets, TLC

VARIABLES
    files,                  \* the export directory: path -> file content
    race_predictions,       \* self.race_predictions
    training_history,       \* self.training_history
    heat_altitude_metrics,  \* self.heat_altitude_metrics
    activities,             \* self.activities
    call,                   \* the last call made on the parser and its argument
    ret,                    \* what that call returned or raised
    results,                \* the mapping the last parse_all_available returned
    iterated,               \* per family, the files the last aggregation parsed, in order
    remote,                 \* the Garmin Connect account: what the service answers
    credentials,            \* GarminConnector.username and .password are both set
    client,                 \* GarminConnector.client
    connected,              \* GarminConnector.connected
    cache,                  \* GarminConnector.cache_dir and the files in it
    trace,                  \* what the last connector call asked of the client and the cache
    frame,                  \* the locals of a day-by-day fetch that is under way
    storage,                \* GarminDataRepository.storage_path: path -> snapshot
    clock                   \* datetime.now(), in seconds

connector == <<remote, credentials, client, connected, cache, trace, frame>>

repository == <<storage, clock>>

vars == <<files, race_predictions, training_history, heat_altitude_metrics,
          activities, call, ret, results, iterated, remote, credentials, client,
          connected, cache, trace, frame, storage, clock>>

-----------------------------------------------------------------------------
(* Bounds *)

MaxFiles == 2        \* files in the export directory (aggregation)
MaxCandidates == 2   \* files in the export directory (single-file parse)
MaxItems == 2        \* elements of a list in a day's response
MaxRows == 3         \* rows of a file parsed for its values
MaxDays == 2         \* days of an account fetched one day at a time
MaxCached == 1       \* cache files written while fetching one day at a time
MaxDetails == 2      \* activities of an account whose details are fetched
MaxSeconds == 61     \* race times from 0 seconds up to this many
MaxTicks == 2        \* seconds that pass while snapshots are saved
MaxSnapshots == 2    \* snapshot files in the repository

-----------------------------------------------------------------------------
(* Strings and paths *)

TokenOrder ==
    << ".json", "/", "0", "1", "2", "3", "4", "5", "6", "7", "8", "9",
       "EnduranceScore", "MetricsAcuteTrainingLoad",
       "MetricsHeatAltitude", "RunRacePredictions", "TrainingHistory", "_",
       "a", "b", "summarizedActivities" >>

Rank(t) == CHOOSE i \in 1..Len(TokenOrder) : TokenOrder[i] = t

Range(s) == { s[i] : i \in 1..Len(s) }

\* Python str.__lt__
StrLess(s, t) ==
    \E k \in 1..(Len(t)) :
        /\ \A j \in 1..(k-1) : j <= Len(s) /\ s[j] = t[j]
        /\ \/ k = Len(s) + 1
           \/ k <= Len(s) /\ s[k] # t[k] /\ Rank(s[k]) < Rank(t[k])

\* list.sort(reverse=True) on a list of distinct strings
RECURSIVE SortReverse(_)
SortReverse(S) ==
    IF S = {} THEN << >>
    ELSE LET m == CHOOSE x \in S : \A y \in S \ {x} : StrLess(y, x)
         IN  <<m>> \o SortReverse(S \ {m})

\* Path(file_path).name
RECURSIVE Name(_)
Name(p) ==
    IF \E i \in 1..Len(p) : p[i] = "/"
    THEN Name(Tail(p))
    ELSE p

\* glob.glob(os.path.join(data_dir, "**", "*<tag>*.json"), recursive=True)
Glob(fs, tag) ==
    { p \in DOMAIN fs : /\ tag \in Range(Name(p))
                        /\ Name(p)[Len(Name(p))] = ".json" }

\* every order in which the matches of a glob, or the elements of a set, can be listed
Orders(S) ==
    { s \in [1..Cardinality(S) -> S] : \A i, j \in 1..Cardinality(S) : s[i] = s[j] => i = j }

None == << >>

-----------------------------------------------------------------------------
(* Tables: a DataFrame is its sequence of rows, every row over the same columns *)

NaN == -1

Columns(df) == IF df = << >> THEN {} ELSE DOMAIN df[1]

Fill(row, cols) == [c \in cols |-> IF c \in DOMAIN row THEN row[c] ELSE NaN]

\* pd.DataFrame(list of objects)
DataFrame(data) ==
    LET cols == UNION { DOMAIN data[i] : i \in 1..Len(data) }
    IN  [i \in 1..Len(data) |-> Fill(data[i], cols)]

RECURSIVE Flatten(_)
Flatten(dfs) == IF dfs = << >> THEN << >> ELSE Head(dfs) \o Flatten(Tail(dfs))

\* pd.concat(dfs, ignore_index=True)
Concat(dfs) == DataFrame(Flatten(dfs))

\* df.drop_duplicates(subset=...): keeps the first row of each group of rows equal
\* on the subset columns; NaN equals NaN here
RECURSIVE SelectRows(_, _)
SelectRows(df, keep) ==
    IF df = << >> THEN << >>
    ELSE (IF keep[1] THEN <<Head(df)>> ELSE << >>)
         \o SelectRows(Tail(df), [i \in 1..(Len(df) - 1) |-> keep[i + 1]])

\* keep='last' instead of the default keep='first'
DropDuplicatesKeepLast(df, subset) ==
    LET key(i) == [c \in subset |-> df[i][c]]
        keep == [i \in 1..Len(df) |-> \A j \in (i+1)..Len(df) : key(j) # key(i)]
    IN  SelectRows(df, keep)

DropDuplicates(df, subset) ==
    LET key(i) == [c \in subset |-> df[i][c]]
        keep == [i \in 1..Len(df) |-> \A j \in 1..(i-1) : key(j) # key(i)]
    IN  SelectRows(df, keep)

RowSet(df) == Range(df)

EmptyFrame == << >>

-----------------------------------------------------------------------------
(* File contents and outcomes *)

\* kind "rows": a JSON list of objects; "undecodable": not JSON;
\* "scalars": a JSON object of scalars, which pd.DataFrame rejects;
\* an export wrapper is an object that holds the list of objects under the key
\* summarizedActivitiesExport; Export is the one-element list of a wrapper
Rows(data) == [kind |-> "rows", data |-> data]
Wrapper(data) == [summarizedActivitiesExport |-> data]
Export(data) == Rows(<<Wrapper(data)>>)
Undecodable == [kind |-> "undecodable", data |-> << >>]
Scalars == [kind |-> "scalars", data |-> << >>]

Ok(df, path) == [exc |-> "none", df |-> df, path |-> path]
Raise(e, path) == [exc |-> e, df |-> EmptyFrame, path |-> path]

\* with open(file_path) as f: data = json.load(f); df = pd.DataFrame(data)
LoadFrame(fs, file_path) ==
    IF file_path \notin DOMAIN fs THEN Raise("FileNotFoundError", file_path)
    ELSE IF fs[file_path].kind = "undecodable" THEN Raise("JSONDecodeError", file_path)
    ELSE IF fs[file_path].kind = "scalars" THEN Raise("ValueError", file_path)
    ELSE Ok(DataFrame(fs[file_path].data), file_path)

\* the pattern loop of the single-file parsers: the first pattern with a match
\* decides; within it matches holding the preferred text win, then the
\* greatest path is taken.  preferred = "" when the parser has no such filter.
\* the matches of all patterns gathered into one list before the sort
FirstMatchMixed(fs, patterns, preferred) ==
    LET matches == UNION { Glob(fs, patterns[i]) : i \in 1..Len(patterns) }
    IN  IF matches = {} THEN None ELSE SortReverse(matches)[1]

RECURSIVE FirstMatch(_, _, _)
FirstMatch(fs, patterns, preferred) ==
    IF patterns = << >> THEN None
    ELSE LET matches == Glob(fs, Head(patterns))
             preferred_matches == { m \in matches : preferred \in Range(m) }
             chosen == IF preferred_matches # {} THEN preferred_matches ELSE matches
         IN  IF matches # {}
             THEN SortReverse(chosen)[1]
             ELSE FirstMatch(fs, Tail(patterns), preferred)

\* df[col] = values, one value per row
SetCol(df, col, values) ==
    [i \in 1..Len(df) |->
        [c \in DOMAIN df[i] \cup {col} |-> IF c = col THEN values[i] ELSE df[i][c]]]

\* pd.to_datetime on a column: an instant is kept as the number that stands for it,
\* a missing value stays missing, text that is no date raises
Unparseable == -2
CanConvert(df, col) == \A i \in 1..Len(df) : df[i][col] # Unparseable
ToDatetime(df, col) == SetCol(df, col, [i \in 1..Len(df) |-> df[i][col]])

-----------------------------------------------------------------------------
(* The single-file parsers *)

RaceTimeColumns ==
    [raceTime5K |-> "raceTime5K_formatted", raceTime10K |-> "raceTime10K_formatted",
     raceTimeHalf |-> "raceTimeHalf_formatted", raceTimeMarathon |-> "raceTimeMarathon_formatted"]

\* text is a sequence of characters
DigitChars == <<"0", "1", "2", "3", "4", "5", "6", "7", "8", "9">>

\* format(n, "d"): the decimal digits of an integer, with a minus sign below zero
RECURSIVE Decimal(_)
Decimal(n) ==
    IF n < 0 THEN <<"-">> \o Decimal(0 - n)
    ELSE IF n < 10 THEN <<DigitChars[n + 1]>>
    ELSE Decimal(n \div 10) \o <<DigitChars[(n % 10) + 1]>>

\* format(n, "02d"): zero-padded on the left to a width of two
ZeroPadded2(n) == IF Len(Decimal(n)) < 2 THEN <<"0">> \o Decimal(n) ELSE Decimal(n)

\* the seconds written without the zero padding, f"{x // 60}:{x % 60}"
FormattedUnpadded(x) == Decimal(x \div 60) \o <<":">> \o Decimal(x % 60)

\* f"{x // 60}:{x % 60:02d}"; // and % round towards minus infinity, as \div and % do
Formatted(x) == Decimal(x \div 60) \o <<":">> \o ZeroPadded2(x % 60)

RECURSIVE AddFormatted(_, _)
AddFormatted(df, cols) ==
    IF cols = {} THEN df
    ELSE LET col == CHOOSE c \in cols : TRUE
         IN  AddFormatted(SetCol(df, RaceTimeColumns[col], [i \in 1..Len(df) |-> Formatted(df[i][col])]),
                          cols \ {col})

\* parse_race_predictions, from the open() on; a missing race time makes the
\* column float and the :02d format raise
RacePredictionsFrom(fs, file_path) ==
    LET loaded == LoadFrame(fs, file_path)
        df == loaded.df
        present == DOMAIN RaceTimeColumns \cap Columns(df)
    IN  IF loaded.exc # "none" THEN loaded
        ELSE IF "timestamp" \in Columns(df) /\ ~CanConvert(df, "timestamp")
             THEN Raise("ValueError", file_path)
        ELSE IF \E c \in present : \E i \in 1..Len(df) : df[i][c] = NaN
             THEN Raise("ValueError", file_path)
        ELSE Ok(AddFormatted(IF "timestamp" \in Columns(df)
                             THEN ToDatetime(df, "timestamp") ELSE df, present),
                file_path)

\* parse_race_predictions(file_path)
ParseRacePredictions(fs, file_path) ==
    LET found == FirstMatch(fs, <<"RunRacePredictions">>, "")
    IN  IF file_path # None THEN RacePredictionsFrom(fs, file_path)
        ELSE IF found = None THEN Raise("FileNotFoundError", None)
        ELSE RacePredictionsFrom(fs, found)

\* re.findall(r'_(\d{8})_', name): the positions of a date token between two
\* underscores; a digit token stands for an 8-digit date
DateParts(name) ==
    { i \in 2..(Len(name) - 1) : name[i-1] = "_" /\ name[i] \in {"1", "2", "9"} /\ name[i+1] = "_" }

\* pd.to_datetime(start_date_str, format='%Y%m%d'), as a day number; the
\* token "9" stands for eight digits that are no date, on which it raises
IsDate(token) == token # "9"
StartDate(token) == IF token = "1" THEN 10 ELSE 20

\* every row given the date of the token itself
SynthesizeDatesSameDay(df, name, now) ==
    LET first == CHOOSE i \in DateParts(name) : \A j \in DateParts(name) : i <= j
        dates == [i \in 1..Len(df) |->
                    IF DateParts(name) = {} \/ ~IsDate(name[first]) THEN now
                    ELSE StartDate(name[first])]
    IN  SetCol(SetCol(df, "timestamp", dates), "calendarDate", dates)

\* the filename-date block shared by the two alternate formats: a date range
\* from the first date token, or the current time when the name has none or
\* its eight digits are no date
SynthesizeDates(df, name, now) ==
    LET first == CHOOSE i \in DateParts(name) : \A j \in DateParts(name) : i <= j
        start_date == StartDate(name[first])
        dates == [i \in 1..Len(df) |->
                    IF DateParts(name) = {} THEN now
                    ELSE IF ~IsDate(name[first]) THEN now
                    ELSE IF Len(df) > 1 THEN start_date + (i - 1)
                    ELSE start_date]
    IN  SetCol(SetCol(df, "timestamp", dates), "calendarDate", dates)

ScoreStatus(x) ==
    IF x > 80 THEN "productive"
    ELSE IF x > 60 THEN "maintaining"
    ELSE IF x > 40 THEN "recovery"
    ELSE "unproductive"

\* df[col] = pd.to_datetime(df[col]) for the named columns that are present
RECURSIVE ConvertColumns(_, _)
ConvertColumns(df, cols) ==
    IF cols = {} THEN df
    ELSE LET col == CHOOSE c \in cols : TRUE
         IN  ConvertColumns(ToDatetime(df, col), cols \ {col})

\* parse_training_history, from the open() on
TrainingHistoryFrom(fs, file_path, now) ==
    LET loaded == LoadFrame(fs, file_path)
        df == loaded.df
        dated == SynthesizeDates(df, Name(file_path), now)
        present == {"timestamp", "calendarDate"} \cap Columns(df)
    IN  IF loaded.exc # "none" THEN loaded
        ELSE IF "EnduranceScore" \in Range(Name(file_path))
        THEN Ok(IF "enduranceScore" \in Columns(df)
                THEN SetCol(dated, "trainingStatus",
                            [i \in 1..Len(df) |-> ScoreStatus(df[i]["enduranceScore"])])
                ELSE IF "score" \in Columns(df)
                THEN SetCol(dated, "trainingStatus",
                            [i \in 1..Len(df) |-> ScoreStatus(df[i]["score"])])
                ELSE SetCol(dated, "trainingStatus", [i \in 1..Len(df) |-> "maintaining"]),
                file_path)
        ELSE IF \E c \in present : ~CanConvert(df, c) THEN Raise("ValueError", file_path)
        ELSE Ok(ConvertColumns(df, present), file_path)

\* parse_training_history(file_path)
ParseTrainingHistory(fs, file_path, now) ==
    LET found == FirstMatch(fs, <<"TrainingHistory", "EnduranceScore">>, "TrainingHistory")
    IN  IF file_path # None THEN TrainingHistoryFrom(fs, file_path, now)
        ELSE IF found = None THEN Raise("FileNotFoundError", None)
        ELSE TrainingHistoryFrom(fs, found, now)

\* parse_heat_altitude_metrics, from the open() on
HeatAltitudeMetricsFrom(fs, file_path, now) ==
    LET loaded == LoadFrame(fs, file_path)
        df == loaded.df
        \* [col for col in df.columns if 'timestamp' in col.lower()], and calendarDate
        present == {"timestamp", "beginTimestamp", "lastUpdateTimestamp", "calendarDate"}
                       \cap Columns(df)
    IN  IF loaded.exc # "none" THEN loaded
        ELSE IF "MetricsAcuteTrainingLoad" \in Range(Name(file_path))
        THEN Ok(SynthesizeDates(df, Name(file_path), now), file_path)
        ELSE IF \E c \in present : ~CanConvert(df, c) THEN Raise("ValueError", file_path)
        ELSE Ok(ConvertColumns(df, present), file_path)

\* parse_heat_altitude_metrics(file_path)
ParseHeatAltitudeMetrics(fs, file_path, now) ==
    LET found == FirstMatch(fs, <<"MetricsHeatAltitude", "MetricsAcuteTrainingLoad">>,
                            "MetricsHeatAltitude")
    IN  IF file_path # None THEN HeatAltitudeMetricsFrom(fs, file_path, now)
        ELSE IF found = None THEN Raise("FileNotFoundError", None)
        ELSE HeatAltitudeMetricsFrom(fs, found, now)

\* find_all_activities_files: list(set(matches)), a set in no particular order
FindAllActivitiesFiles(fs) == Glob(fs, "summarizedActivities")

\* the two conversion loops of parse_activities: a column that does not convert
\* is left as it is
ConvertActivityColumns(df) ==
    ConvertColumns(df, { c \in {"beginTimestamp", "startTimeGmt", "startTimeLocal",
                                "lastUpdateTimestamp", "beginTimestampGMT",
                                "endTimestampGMT"} \cap Columns(df) : CanConvert(df, c) })

\* the try block of parse_activities: any exception gives an empty DataFrame;
\* the list under summarizedActivitiesExport is taken when the file has that form
ActivitiesFrom(fs, file_path) ==
    LET data == fs[file_path].data
        activities_data ==
            IF Len(data) > 0 /\ "summarizedActivitiesExport" \in DOMAIN data[1]
            THEN data[1]["summarizedActivitiesExport"]
            ELSE data
    IN  IF file_path \notin DOMAIN fs THEN Ok(EmptyFrame, file_path)
        ELSE IF fs[file_path].kind \in {"undecodable", "scalars"} THEN Ok(EmptyFrame, file_path)
        ELSE Ok(ConvertActivityColumns(DataFrame(activities_data)), file_path)

\* parse_activities(file_path)
ParseActivities(fs, file_path) ==
    LET all_matches == FindAllActivitiesFiles(fs)
    IN  IF file_path # None THEN ActivitiesFrom(fs, file_path)
        ELSE IF all_matches = {} THEN Raise("FileNotFoundError", None)
        ELSE ActivitiesFrom(fs, SortReverse(all_matches)[1])

-----------------------------------------------------------------------------
(* Historical aggregation *)

\* a parser attribute: None until a parse assigns a DataFrame
Unset == [isNone |-> TRUE, df |-> EmptyFrame]
Assigned(df) == [isNone |-> FALSE, df |-> df]

\* the loop without its per-file try/except: the first file that raises ends it
NonEmptyUntilRaise(outcomes) ==
    LET raised == { i \in 1..Len(outcomes) : outcomes[i].exc # "none" }
        before == IF raised = {} THEN outcomes
                  ELSE SubSeq(outcomes, 1, (CHOOSE i \in raised : \A j \in raised : i <= j) - 1)
        good == SelectSeq(before, LAMBDA o : o.df # EmptyFrame)
    IN  [i \in 1..Len(good) |-> good[i].df]

NonEmpty(outcomes) ==
    LET good == SelectSeq(outcomes, LAMBDA o : o.exc = "none" /\ o.df # EmptyFrame)
    IN  [i \in 1..Len(good) |-> good[i].df]

\* parse_all_activities, with the files iterated in the given order
ParseAllActivities(fs, order) ==
    LET outcomes == [i \in 1..Len(order) |-> ParseActivities(fs, order[i])]
        all_activities == NonEmpty(outcomes)
        combined_df == Concat(all_activities)
    IN  IF order = << >> THEN Raise("FileNotFoundError", None)
        ELSE IF all_activities = << >> THEN Ok(EmptyFrame, None)
        ELSE IF "activityId" \in Columns(combined_df)
             THEN Ok(DropDuplicates(combined_df, {"activityId"}), None)
             ELSE Ok(combined_df, None)

\* one family block of parse_all_available: the frames of the files that
\* parsed to something, concatenated and deduplicated on the whole row
\* the concatenation returned without drop_duplicates
CombinedKeepAll(outcomes) == Concat(NonEmpty(outcomes))

\* dedup on the date columns only, the way activities are keyed on activityId
CombinedByDate(outcomes) ==
    LET combined_df == Concat(NonEmpty(outcomes))
    IN  DropDuplicates(combined_df, Columns(combined_df) \cap {"timestamp", "calendarDate"})

Combined(outcomes) ==
    LET combined_df == Concat(NonEmpty(outcomes))
    IN  DropDuplicates(combined_df, Columns(combined_df))

\* the value a parser attribute has after a loop of parse calls: the frame of
\* the last call that returned
LastParsed(outcomes, before) ==
    LET ok == { i \in 1..Len(outcomes) : outcomes[i].exc = "none" }
    IN  IF ok = {} THEN before
        ELSE Assigned(outcomes[CHOOSE i \in ok : \A j \in ok : j <= i].df)

-----------------------------------------------------------------------------
(* Python values in the connector: what the remote client returns and what  *)
(* the fetchers put into their rows.  A value carries its type; an object   *)
(* (dict) is a function from its keys, a row is such a function.            *)

PyNone == [kind |-> "NoneType", val |-> 0]
PyInt(n) == [kind |-> "int", val |-> n]
PyStr(text) == [kind |-> "str", val |-> text]
PyList(items) == [kind |-> "list", val |-> items]
PyDict(map) == [kind |-> "dict", val |-> map]

\* isinstance(v, dict), isinstance(v, list), isinstance(v, str)
IsDict(v) == v.kind = "dict"
IsList(v) == v.kind = "list"
IsStr(v) == v.kind = "str"

\* pd.DataFrame(list of objects) on these values: a missing cell is NaN
RecordsFrame(data) ==
    LET cols == UNION { DOMAIN data[i] : i \in 1..Len(data) }
    IN  [i \in 1..Len(data) |->
            [c \in cols |-> IF c \in DOMAIN data[i] THEN data[i][c]
                            ELSE [kind |-> "float", val |-> "nan"]]]

\* text joined with ", " between the pieces
RECURSIVE Joined(_)
Joined(pieces) ==
    IF pieces = << >> THEN << >>
    ELSE IF Len(pieces) = 1 THEN pieces[1]
    ELSE pieces[1] \o <<",", " ">> \o Joined(Tail(pieces))

\* repr(v) and str(v): text is quoted inside a list, bare on its own
RECURSIVE PyRepr(_)
PyRepr(v) ==
    IF v.kind = "int" THEN Decimal(v.val)
    ELSE IF v.kind = "str" THEN <<"'">> \o v.val \o <<"'">>
    ELSE IF v.kind = "list"
    THEN <<"[">> \o Joined([i \in 1..Len(v.val) |-> PyRepr(v.val[i])]) \o <<"]">>
    ELSE <<"None">>

Str(v) == IF v.kind = "str" THEN v.val ELSE PyRepr(v)

\* the keys of an object in the order json.dumps writes them
RECURSIVE KeyOrder(_)
KeyOrder(keys) ==
    IF keys = {} THEN << >>
    ELSE LET k == CHOOSE x \in keys : TRUE IN <<k>> \o KeyOrder(keys \ {k})

\* json.dumps(v)
RECURSIVE JsonDumps(_)
JsonDumps(v) ==
    IF v.kind = "int" THEN Decimal(v.val)
    ELSE IF v.kind = "str" THEN <<"\"">> \o v.val \o <<"\"">>
    ELSE IF v.kind = "list"
    THEN <<"[">> \o Joined([i \in 1..Len(v.val) |-> JsonDumps(v.val[i])]) \o <<"]">>
    ELSE IF v.kind = "dict"
    THEN LET keys == KeyOrder(DOMAIN v.val)
         IN  <<"{">> \o Joined([i \in 1..Len(keys) |->
                                  <<"\"", keys[i], "\"", ":", " ">> \o JsonDumps(v.val[keys[i]])])
                     \o <<"}">>
    ELSE <<"n", "u", "l", "l">>

\* current.strftime("%Y-%m-%d") for a day of March 2024, and pd.to_datetime of that text
Strftime(day) == <<"2024-03-">> \o ZeroPadded2(day)

\* what one element of a day's list can be: an object, a [timestamp, value]
\* pair, a number, a text
ItemValues ==
    { PyDict([heartRate |-> PyInt(62)]),
      PyList(<<PyInt(17), PyInt(62)>>),
      PyInt(65),
      PyStr(<<"l", "o", "w">>) }

NestedKeys == {"heartRateValues", "values", "stressValues", "sleepLevels"}

\* the values a day's response can decode to: a list of up to MaxItems
\* elements, an object holding a list (one element shorter) or a number under
\* one of the nested keys, an object without one, a number, null
DecodedValues ==
    { PyList(items) : items \in UNION { [1..n -> ItemValues] : n \in 0..MaxItems } }
    \cup { PyDict(k :> PyList(items)) :
               k \in NestedKeys,
               items \in UNION { [1..n -> ItemValues] : n \in 0..(MaxItems - 1) } }
    \cup { PyDict(k :> PyInt(5)) : k \in NestedKeys }
    \cup { PyDict([restingHeartRate |-> PyInt(48)]), PyInt(5), PyNone }

JsonTexts == [v \in DecodedValues |-> JsonDumps(v)]

RawDataLimit == 100

JSONDecodeError == [kind |-> "JSONDecodeError", val |-> 0]

\* json.loads(text)
JsonLoads(text) ==
    IF \E v \in DecodedValues : JsonTexts[v] = text
    THEN CHOOSE v \in DecodedValues : JsonTexts[v] = text
    ELSE JSONDecodeError

\* the remote call of a day raises
Raises == [kind |-> "raise", val |-> 0]

\* what self.client.get_heart_rates(day), get_sleep_data(day), get_stress_data(day)
\* can give: a value, the JSON text of one, a text that is not JSON (a short
\* one, one of exactly 100 characters, one of 101), or an exception
DayPayloads ==
    DecodedValues
    \cup { PyStr(JsonTexts[v]) : v \in DecodedValues }
    \cup { PyStr(<<"<", "h", "t", "m", "l", ">">>),
           PyStr([i \in 1..RawDataLimit |-> "x"]),
           PyStr([i \in 1..(RawDataLimit + 1) |-> "x"]) }
    \cup { Raises }

-----------------------------------------------------------------------------
(* The day-by-day fetchers: one day's response turned into rows *)

\* item.copy() with item['date'] = date
Dated(obj, date) ==
    [k \in DOMAIN obj.val \cup {"date"} |-> IF k = "date" THEN PyStr(date) ELSE obj.val[k]]

\* {'date': date, 'value': value}
ValueRow(date, value) == [date |-> PyStr(date), value |-> value]

\* {'date': date, 'raw_data': day_data[:100] + '...' if len(day_data) > 100 else day_data}
RawRow(date, text) ==
    [date |-> PyStr(date),
     raw_data |-> PyStr(IF Len(text) > RawDataLimit
                        THEN SubSeq(text, 1, RawDataLimit) \o <<".", ".", ".">>
                        ELSE text)]

\* {'date': date, 'unknown_type_data': str(type(day_data))}
UnknownRow(date, v) ==
    [date |-> PyStr(date), unknown_type_data |-> PyStr(<<"<class '", v.kind, "'>">>)]

\* for item in items: the objects only, each with the date
ObjectRows(items, date) ==
    Flatten([i \in 1..Len(items) |->
                IF IsDict(items[i]) THEN <<Dated(items[i], date)>> ELSE << >>])

\* for item in items: an object with the date, anything else as a value
ItemRows(items, date) ==
    Flatten([i \in 1..Len(items) |->
                IF IsDict(items[i]) THEN <<Dated(items[i], date)>>
                ELSE <<ValueRow(date, items[i])>>])

\* the same with 'value': str(item)
ItemRowsAsText(items, date) ==
    Flatten([i \in 1..Len(items) |->
                IF IsDict(items[i]) THEN <<Dated(items[i], date)>>
                ELSE <<ValueRow(date, PyStr(Str(items[i])))>>])

\* the loop over heartRateValues and over stressValues: an object with the
\* date, a list of two or more as timestamp and value, anything else as a value
EntryRows(entries, date) ==
    Flatten([i \in 1..Len(entries) |->
                IF IsDict(entries[i]) THEN <<Dated(entries[i], date)>>
                ELSE IF IsList(entries[i]) /\ Len(entries[i].val) >= 2
                THEN <<[date |-> PyStr(date), timestamp |-> entries[i].val[1],
                        value |-> entries[i].val[2]]>>
                ELSE <<ValueRow(date, entries[i])>>])

\* json_data of a text response, in the heart-rate and the sleep fetcher: the
\* objects of a list, an object as one row, nothing for any other value
DecodedObjectRows(text, date) ==
    LET json_data == JsonLoads(text)
    IN  IF json_data = JSONDecodeError THEN <<RawRow(date, text)>>
        ELSE IF IsList(json_data) THEN ObjectRows(json_data.val, date)
        ELSE IF IsDict(json_data) THEN <<Dated(json_data, date)>>
        ELSE << >>

\* the branch on type(day_data) in get_heart_rates
HeartRateRows(day_data, date) ==
    IF day_data = PyNone THEN << >>
    ELSE IF IsStr(day_data) THEN DecodedObjectRows(day_data.val, date)
    ELSE IF IsList(day_data)
    THEN Flatten([i \in 1..Len(day_data.val) |->
                    IF IsDict(day_data.val[i]) THEN <<Dated(day_data.val[i], date)>>
                    ELSE <<ValueRow(date, IF IsStr(day_data.val[i])
                                          THEN PyStr(Str(day_data.val[i]))
                                          ELSE day_data.val[i])>>])
    ELSE IF IsDict(day_data)
    THEN IF "heartRateValues" \in DOMAIN day_data.val
         THEN LET hr_values == day_data.val["heartRateValues"]
              IN  IF IsList(hr_values) /\ Len(hr_values.val) > 0
                  THEN EntryRows(hr_values.val, date)
                  ELSE <<Dated(day_data, date)>>
         ELSE IF "values" \in DOMAIN day_data.val
         THEN LET values == day_data.val["values"]
              IN  IF IsList(values) /\ Len(values.val) > 0
                  THEN ItemRows(values.val, date)
                  ELSE <<Dated(day_data, date)>>
         ELSE <<Dated(day_data, date)>>
    ELSE <<UnknownRow(date, day_data)>>

\* the branch on type(day_data) in get_sleep_data; sleepLevels is only logged
SleepRows(day_data, date) ==
    IF day_data = PyNone THEN << >>
    ELSE IF IsStr(day_data) THEN DecodedObjectRows(day_data.val, date)
    ELSE IF IsList(day_data) THEN ItemRowsAsText(day_data.val, date)
    ELSE IF IsDict(day_data) THEN <<Dated(day_data, date)>>
    ELSE <<UnknownRow(date, day_data)>>

\* the branch on type(day_data) in get_stress_data
StressRows(day_data, date) ==
    IF day_data = PyNone THEN << >>
    ELSE IF IsStr(day_data)
    THEN LET json_data == JsonLoads(day_data.val)
         IN  IF json_data = JSONDecodeError THEN <<RawRow(date, day_data.val)>>
             ELSE IF IsList(json_data) THEN ItemRowsAsText(json_data.val, date)
             ELSE IF IsDict(json_data) THEN <<Dated(json_data, date)>>
             ELSE << >>
    ELSE IF IsList(day_data) THEN ItemRowsAsText(day_data.val, date)
    ELSE IF IsDict(day_data)
    THEN IF "stressValues" \in DOMAIN day_data.val
         THEN LET stress_values == day_data.val["stressValues"]
              IN  IF IsList(stress_values) /\ Len(stress_values.val) > 0
                  THEN EntryRows(stress_values.val, date)
                  ELSE <<Dated(day_data, date)>>
         ELSE <<Dated(day_data, date)>>
    ELSE <<UnknownRow(date, day_data)>>

DayRows(family, day_data, date) ==
    IF family = "heart_rates" THEN HeartRateRows(day_data, date)
    ELSE IF family = "sleep_data" THEN SleepRows(day_data, date)
    ELSE StressRows(day_data, date)

-----------------------------------------------------------------------------
(* The connector: connection, cache and the fetch over a date range *)

\* the remote account: the response of each day and the activity list
\* cache_dir unset, and a cache directory with no file in it
NoCacheDir == [dir |-> FALSE, files |-> << >>]
EmptyCacheDir == [dir |-> TRUE, files |-> << >>]

\* GarminDataRepository(storage_path) on a new directory: no snapshot yet; the
\* wall clock reads 12:00:08
EmptyRepository ==
    /\ storage = << >>
    /\ clock = 8

\* no day-by-day fetch is under way
Idle ==
    [pc |-> "idle", family |-> "", start_date |-> 0, end_date |-> 0,
     use_cache |-> FALSE, current |-> 0, all_data |-> << >>]

\* GarminConnector() on its own: no credentials, no client, no cache
\* directory; the account behind it has no data
Constructed ==
    /\ remote = [days |-> << >>, activities |-> << >>, details |-> << >>]
    /\ credentials = FALSE
    /\ client = "None"
    /\ connected = FALSE
    /\ cache = NoCacheDir
    /\ trace = << >>
    /\ frame = Idle

\* one entry of the trace: a method of self.client, self._get_from_cache or
\* self._cache_result, and the day, the activity or the cache file it is called for
Event(method, arg) == [method |-> method, arg |-> arg]

\* if use_cache: cached_data = self._get_from_cache(cache_file)
CacheLookup(use_cache, cache_file) ==
    IF use_cache THEN <<Event("_get_from_cache", cache_file)>> ELSE << >>

\* a connection check that only asks whether a client was made
ClientWasMade(cl, conn) == cl # "None"

\* _check_connection()
CheckConnection(cl, conn) == cl # "None" /\ conn

\* json.dump(data, f, cls=DateTimeEncoder) followed by json.load(f), for a list
\* of rows: a Timestamp comes back as its isoformat() text
CacheEncoded(data) ==
    [i \in 1..Len(data) |->
        [c \in DOMAIN data[i] |->
            IF data[i][c].kind = "Timestamp"
            THEN PyStr(Strftime(data[i][c].val) \o <<"T00:00:00">>)
            ELSE data[i][c]]]

\* _cache_result(data, cache_file)
CacheResult(c, data, cache_file) ==
    IF c.dir THEN [c EXCEPT !.files = (cache_file :> CacheEncoded(data)) @@ c.files]
    ELSE c

\* a hit on any file that exists, also an empty one
CacheHitIfPresent(c, cache_file) ==
    /\ c.dir
    /\ cache_file \in DOMAIN c.files

\* cached_data = _get_from_cache(cache_file); if cached_data:
CacheHit(c, cache_file) ==
    /\ c.dir
    /\ cache_file \in DOMAIN c.files
    /\ c.files[cache_file] # << >>

\* pd.to_datetime on the text strftime wrote
ToTimestamp(text) ==
    [kind |-> "Timestamp", val |-> CHOOSE day \in 1..31 : Strftime(day) = text]

\* df['date'] = pd.to_datetime(df['date'])
DateConverted(df) ==
    [i \in 1..Len(df) |->
        [c \in DOMAIN df[i] |-> IF c = "date" THEN ToTimestamp(df[i][c].val) ELSE df[i][c]]]

\* self.client.get_...(current): days the account does not cover have no data
Response(days, current) == IF current \in DOMAIN days THEN days[current] ELSE PyNone

\* the while loop from start to end; a day whose call raises adds nothing
RECURSIVE CollectDays(_, _, _, _)
CollectDays(family, days, current, end) ==
    IF current > end THEN << >>
    ELSE (IF Response(days, current) = Raises THEN << >>
          ELSE DayRows(family, Response(days, current), Strftime(current)))
         \o CollectDays(family, days, current + 1, end)

CacheFile(family, start_date, end_date) ==
    <<family, "_">> \o Strftime(start_date) \o <<"_">> \o Strftime(end_date) \o <<".json">>

\* get_heart_rates, get_sleep_data, get_stress_data(start_date, end_date, use_cache):
\* what the call returns, the cache it leaves and what it asked for
FetchDays(family, start_date, end_date, use_cache, account, cl, conn, c) ==
    LET cache_file == CacheFile(family, start_date, end_date)
        all_data == CollectDays(family, account.days, start_date, end_date)
        df == RecordsFrame(all_data)
        requested == [i \in 1..(end_date + 1 - start_date) |->
                        Event(family, Strftime(start_date + i - 1))]
    IN  IF ~CheckConnection(cl, conn)
        THEN [ret |-> Raise("ValueError", None), cache |-> c, trace |-> << >>]
        ELSE IF use_cache /\ CacheHit(c, cache_file)
        THEN [ret |-> Ok(RecordsFrame(c.files[cache_file]), None), cache |-> c,
              trace |-> CacheLookup(use_cache, cache_file)]
        ELSE [ret |-> Ok(DateConverted(df), None),
              cache |-> CacheResult(c, all_data, cache_file),
              trace |-> CacheLookup(use_cache, cache_file) \o requested
                        \o <<Event("_cache_result", cache_file)>>]

-----------------------------------------------------------------------------
(* get_activities and get_race_predictions *)

\* an activity as get_activities_by_date lists it
RemoteActivity(type, day, distance, duration) ==
    [activityType |-> PyStr(<<type>>), startTimeLocal |-> PyStr(Strftime(day)),
     distance |-> PyInt(distance), duration |-> PyInt(duration), avgSpeed |-> PyInt(3)]

\* get_activities(start_date, end_date, limit=None, use_cache) for the days
\* since start_date: the cached list is returned as it was stored, a fetched
\* list has its startTimeLocal converted
GetActivities(start_date, use_cache, account, c) ==
    LET cache_file == <<"activities", "_", start_date, "_", "2024-03-09", "_", "None", ".json">>
        activities_list == account.activities
        df == RecordsFrame(activities_list)
    IN  IF use_cache /\ CacheHit(c, cache_file)
        THEN [df |-> RecordsFrame(c.files[cache_file]), cache |-> c,
              trace |-> CacheLookup(use_cache, cache_file)]
        ELSE [df |-> [i \in 1..Len(df) |->
                        [col \in DOMAIN df[i] |->
                            IF col = "startTimeLocal" THEN ToTimestamp(df[i][col].val)
                            ELSE df[i][col]]],
              cache |-> CacheResult(c, activities_list, cache_file),
              trace |-> CacheLookup(use_cache, cache_file)
                        \o <<Event("get_activities_by_date", cache_file),
                             Event("_cache_result", cache_file)>>]

\* dt.isocalendar().week for a day of March 2024 (the 4th is a Monday)
IsoWeek(day) == 9 + ((day + 3) \div 7)

\* int(metres * avg_pace * factor) with avg_pace = duration / distance, or 0
\* when the distance is 0; factor is given in hundredths
RaceTime(metres, hundredths, duration, distance) ==
    IF distance > 0 THEN (metres * duration * hundredths) \div (distance * 100) ELSE 0

RECURSIVE SumOf(_, _)
SumOf(rows, col) ==
    IF rows = << >> THEN 0 ELSE Head(rows)[col].val + SumOf(Tail(rows), col)

RECURSIVE Ascending(_)
Ascending(S) ==
    IF S = {} THEN << >>
    ELSE LET m == CHOOSE x \in S : \A y \in S : x <= y
         IN  <<m>> \o Ascending(S \ {m})

\* one entry per ISO week of the running activities, weeks ascending
WeeklyEntries(running_activities) ==
    LET week(i) == IsoWeek(running_activities[i]["startTimeLocal"].val)
        weeks == Ascending({ week(i) : i \in 1..Len(running_activities) })
        inWeek(w) == SelectSeq(running_activities,
                           LAMBDA r : IsoWeek(r["startTimeLocal"].val) = w)
        entry(w) ==
            LET duration == SumOf(inWeek(w), "duration")
                distance == SumOf(inWeek(w), "distance")
                last == inWeek(w)[Len(inWeek(w))]["startTimeLocal"].val
            IN  [timestamp |-> PyStr(Strftime(last)),
                 raceTime5K |-> PyInt(RaceTime(5000, 105, duration, distance)),
                 raceTime10K |-> PyInt(RaceTime(10000, 108, duration, distance)),
                 raceTimeHalf |-> PyInt(RaceTime(21097, 110, duration, distance)),
                 raceTimeMarathon |-> PyInt(RaceTime(42195, 115, duration, distance))]
    IN  [i \in 1..Len(weeks) |-> entry(weeks[i])]

\* df[f'{col}_formatted'] = df[col].apply(...) for the four race-time columns
RECURSIVE AddFormattedText(_, _)
AddFormattedText(df, cols) ==
    IF cols = {} THEN df
    ELSE LET col == CHOOSE c \in cols : TRUE
         IN  AddFormattedText(
                 SetCol(df, RaceTimeColumns[col],
                        [i \in 1..Len(df) |-> PyStr(Formatted(df[i][col].val))]),
                 cols \ {col})

\* get_race_predictions(use_cache): what the call returns and the cache it leaves
GetRacePredictionsFrom(use_cache, account, cl, conn, c) ==
    LET cache_file == <<"race_predictions", ".json">>
        fetched == GetActivities("2023-12-10", use_cache, account, c)
        activities_df == fetched.df
        running_activities ==
            SelectSeq(activities_df, LAMBDA r : r["activityType"] = PyStr(<<"running">>))
        entries == WeeklyEntries(running_activities)
        \* the entry used when no running activity gave one, stamped with
        \* datetime.now(), the 9th
        dummy == [timestamp |-> PyStr(Strftime(9)), raceTime5K |-> PyInt(1500),
                  raceTime10K |-> PyInt(3000), raceTimeHalf |-> PyInt(6300),
                  raceTimeMarathon |-> PyInt(14400)]
        data == IF entries = << >> THEN <<dummy>> ELSE entries
        dated == SetCol(RecordsFrame(data), "timestamp",
                        [i \in 1..Len(data) |-> ToTimestamp(data[i]["timestamp"].val)])
        df == AddFormattedText(dated, DOMAIN RaceTimeColumns)
        looked == CacheLookup(use_cache, cache_file)
    IN  IF ~CheckConnection(cl, conn)
        THEN [ret |-> Raise("ValueError", None), cache |-> c, trace |-> << >>]
        ELSE IF use_cache /\ CacheHit(c, cache_file)
        THEN [ret |-> Ok(RecordsFrame(c.files[cache_file]), None), cache |-> c,
              trace |-> looked]
        ELSE IF activities_df = << >>
        THEN [ret |-> Raise("KeyError", None), cache |-> fetched.cache,
              trace |-> looked \o fetched.trace]
        ELSE IF \E i \in 1..Len(running_activities) :
                    running_activities[i]["startTimeLocal"].kind # "Timestamp"
        THEN [ret |-> Raise("AttributeError", None), cache |-> fetched.cache,
              trace |-> looked \o fetched.trace]
        ELSE [ret |-> Ok(df, None), cache |-> CacheResult(fetched.cache, df, cache_file),
              trace |-> looked \o fetched.trace \o <<Event("_cache_result", cache_file)>>]

-----------------------------------------------------------------------------
(* State *)

NoCall == [op |-> "none", arg |-> None]
NoReturn == Ok(EmptyFrame, None)
NoOrder == [race_predictions |-> << >>, training_history |-> << >>,
            heat_altitude_metrics |-> << >>, activities |-> << >>]
NoResults == << >>

File(folder, tag, stamp) == folder \o <<tag, "_", stamp, ".json">>
InA == <<"a", "/">>
InB == <<"b", "/">>

\* pd.Timestamp.now()
NowValues == {30}
Now == CHOOSE n \in NowValues : TRUE

Prediction(t, s) == [timestamp |-> t, raceTime5K |-> s]
Training(d, st) == [calendarDate |-> d, trainingStatus |-> st]
Metrics(d, h) == [calendarDate |-> d, heatAcclimatization |-> h]
Activity(id, m) == [activityId |-> id, distance |-> m]
Untagged(m) == [distance |-> m]

\* the exports the aggregation is run over
ExportContents(p) ==
    IF "summarizedActivities" \in Range(p)
    THEN { Undecodable,
           Rows(<<Activity(1, 5)>>),
           Rows(<<Activity(1, 10), Activity(2, 5)>>),
           Rows(<<Activity(2, 5), Untagged(5)>>),
           Rows(<<Untagged(5)>>),
           Rows(<<Untagged(10)>>) }
    ELSE IF "RunRacePredictions" \in Range(p)
    THEN { Undecodable,
           Rows(<<Prediction(1, 1500)>>),
           Rows(<<Prediction(1, 1500), Prediction(1, 1505)>>) }
    ELSE IF "TrainingHistory" \in Range(p)
    THEN { Undecodable,
           Rows(<<Training(1, "productive")>>),
           Rows(<<Training(1, "productive"), Training(1, "recovery")>>) }
    ELSE { Undecodable,
           Rows(<<Metrics(1, 50)>>),
           Rows(<<Metrics(1, 50), Metrics(1, 70)>>) }

Init ==
    /\ files = << >>
    /\ race_predictions = Unset
    /\ training_history = Unset
    /\ heat_altitude_metrics = Unset
    /\ activities = Unset
    /\ call = NoCall
    /\ ret = NoReturn
    /\ results = NoResults
    /\ iterated = NoOrder
    /\ Constructed
    /\ EmptyRepository

-----------------------------------------------------------------------------
(* Actions *)

\* a file is added to the export directory between two runs
ExportFile ==
    /\ Cardinality(DOMAIN files) < MaxFiles
    /\ \E p \in { File(InA, "summarizedActivities", "1"),
                  File(InB, "summarizedActivities", "1"),
                  File(<< >>, "summarizedActivities", "2"),
                  File(InA, "RunRacePredictions", "1"), File(InB, "RunRacePredictions", "2"),
                  File(InA, "TrainingHistory", "1"), File(InB, "TrainingHistory", "2"),
                  File(InA, "MetricsHeatAltitude", "1"),
                  File(InB, "MetricsHeatAltitude", "2") } \ DOMAIN files :
          \E c \in ExportContents(p) : files' = (p :> c) @@ files
    /\ call' = NoCall
    /\ ret' = NoReturn
    /\ results' = NoResults
    /\ iterated' = NoOrder
    /\ UNCHANGED <<race_predictions, training_history, heat_altitude_metrics, activities>>
    /\ UNCHANGED <<connector, repository>>

\* parse_all_activities()
ParseAllActivitiesCall ==
    /\ \E order \in Orders(FindAllActivitiesFiles(files)) :
          LET out == ParseAllActivities(files, order)
          IN  /\ ret' = out
              /\ activities' = IF out.exc = "none" /\ out.df # EmptyFrame
                                THEN Assigned(out.df) ELSE activities
              /\ iterated' = [NoOrder EXCEPT !.activities = order]
    /\ call' = [op |-> "parse_all_activities", arg |-> None]
    /\ results' = NoResults
    /\ UNCHANGED <<files, race_predictions, training_history, heat_altitude_metrics>>
    /\ UNCHANGED <<connector, repository>>

\* parse_all_available(), with each family's files iterated in the given order:
\* the frames parsed per family and the mapping returned
AllAvailable(fs, race_pred_files, training_files, metrics_files, all_matches, now) ==
    LET race == [i \in 1..Len(race_pred_files) |->
                    ParseRacePredictions(fs, race_pred_files[i])]
        training == [i \in 1..Len(training_files) |->
                        ParseTrainingHistory(fs, training_files[i], now)]
        metrics == [i \in 1..Len(metrics_files) |->
                       ParseHeatAltitudeMetrics(fs, metrics_files[i], now)]
        acts == ParseAllActivities(fs, all_matches)
        keys == { k \in {"race_predictions"} : NonEmpty(race) # << >> }
                \cup { k \in {"training_history"} : NonEmpty(training) # << >> }
                \cup { k \in {"heat_altitude_metrics"} : NonEmpty(metrics) # << >> }
                \cup { k \in {"activities"} : acts.exc = "none" }
    IN  [race |-> race, training |-> training, metrics |-> metrics, acts |-> acts,
         results |-> [k \in keys |->
                        CASE k = "race_predictions" -> Combined(race)
                          [] k = "training_history" -> Combined(training)
                          [] k = "heat_altitude_metrics" -> Combined(metrics)
                          [] k = "activities" -> acts.df]]

\* parse_all_available()
ParseAllAvailable ==
    /\ \E race_pred_files \in Orders(Glob(files, "RunRacePredictions")),
          training_files \in Orders(Glob(files, "TrainingHistory")),
          metrics_files \in Orders(Glob(files, "MetricsHeatAltitude")),
          all_matches \in Orders(FindAllActivitiesFiles(files)),
          now \in NowValues :
          LET run == AllAvailable(files, race_pred_files, training_files, metrics_files,
                                  all_matches, now)
          IN  /\ results' = run.results
              /\ race_predictions' = LastParsed(run.race, race_predictions)
              /\ training_history' = LastParsed(run.training, training_history)
              /\ heat_altitude_metrics' = LastParsed(run.metrics, heat_altitude_metrics)
              /\ activities' = IF run.acts.exc = "none" /\ run.acts.df # EmptyFrame
                                THEN Assigned(run.acts.df) ELSE activities
              /\ iterated' = [race_predictions |-> race_pred_files,
                              training_history |-> training_files,
                              heat_altitude_metrics |-> metrics_files,
                              activities |-> all_matches]
    /\ call' = [op |-> "parse_all_available", arg |-> None]
    /\ ret' = NoReturn
    /\ UNCHANGED files
    /\ UNCHANGED <<connector, repository>>

Next == ExportFile \/ ParseAllActivitiesCall \/ ParseAllAvailable

Spec == Init /\ [][Next]_vars

-----------------------------------------------------------------------------
(* The single-file parsers called on a directory of candidates *)

FamilyTags ==
    [race_predictions |-> {"RunRacePredictions"},
     training_history |-> {"TrainingHistory", "EnduranceScore"},
     heat_altitude_metrics |-> {"MetricsHeatAltitude", "MetricsAcuteTrainingLoad"},
     activities |-> {"summarizedActivities"}]

\* where a name has two candidates the later stamp lies in folder a and the
\* earlier in folder b; each fallback lies in folder b, and one more in a folder
\* that carries the primary name
CandidatePaths ==
    { File(InA, "RunRacePredictions", "2"), File(InB, "RunRacePredictions", "1"),
      File(InA, "summarizedActivities", "2"), File(InB, "summarizedActivities", "1"),
      File(InA, "TrainingHistory", "2"), File(InB, "TrainingHistory", "1"),
      File(InB, "EnduranceScore", "1"),
      File(<<"TrainingHistory", "/">>, "EnduranceScore", "1"),
      File(InA, "MetricsHeatAltitude", "2"), File(InB, "MetricsAcuteTrainingLoad", "1") }

PathsOf(family) == { p \in CandidatePaths : Range(Name(p)) \cap FamilyTags[family] # {} }

CandidateContents(p) ==
    { Undecodable, Scalars } \cup
    ( IF p \in PathsOf("activities")
      THEN { Rows(<<Activity(1, 5)>>), Export(<<Activity(2, 10)>>) }
      ELSE IF p \in PathsOf("race_predictions") THEN { Rows(<<Prediction(1, 1500)>>) }
      ELSE IF p \in PathsOf("training_history") THEN { Rows(<<Training(1, "productive")>>) }
      ELSE { Rows(<<Metrics(1, 50)>>) } )

\* a directory of up to MaxCandidates of the candidate files
InitParse ==
    /\ files \in
          LET contents == UNION { CandidateContents(p) : p \in CandidatePaths }
          IN  UNION { { f \in [S -> contents] : \A p \in S : f[p] \in CandidateContents(p) } :
                      S \in { T \in SUBSET CandidatePaths : Cardinality(T) <= MaxCandidates } }
    /\ race_predictions = Unset
    /\ training_history = Unset
    /\ heat_altitude_metrics = Unset
    /\ activities = Unset
    /\ call = NoCall
    /\ ret = NoReturn
    /\ results = NoResults
    /\ iterated = NoOrder
    /\ Constructed
    /\ EmptyRepository

\* parser.parse_race_predictions(file_path)
ParseRacePredictionsCall ==
    /\ \E file_path \in {None} \cup PathsOf("race_predictions") :
          LET out == ParseRacePredictions(files, file_path)
          IN  /\ call' = [op |-> "parse_race_predictions", arg |-> file_path]
              /\ ret' = out
              /\ race_predictions' = IF out.exc = "none" THEN Assigned(out.df)
                                      ELSE race_predictions
    /\ UNCHANGED <<files, training_history, heat_altitude_metrics, activities,
                   results, iterated>>
    /\ UNCHANGED <<connector, repository>>

\* parser.parse_training_history(file_path)
ParseTrainingHistoryCall ==
    /\ \E file_path \in {None} \cup PathsOf("training_history"), now \in NowValues :
          LET out == ParseTrainingHistory(files, file_path, now)
          IN  /\ call' = [op |-> "parse_training_history", arg |-> file_path]
              /\ ret' = out
              /\ training_history' = IF out.exc = "none" THEN Assigned(out.df)
                                      ELSE training_history
    /\ UNCHANGED <<files, race_predictions, heat_altitude_metrics, activities,
                   results, iterated>>
    /\ UNCHANGED <<connector, repository>>

\* parser.parse_heat_altitude_metrics(file_path)
ParseHeatAltitudeMetricsCall ==
    /\ \E file_path \in {None} \cup PathsOf("heat_altitude_metrics"), now \in NowValues :
          LET out == ParseHeatAltitudeMetrics(files, file_path, now)
          IN  /\ call' = [op |-> "parse_heat_altitude_metrics", arg |-> file_path]
              /\ ret' = out
              /\ heat_altitude_metrics' = IF out.exc = "none" THEN Assigned(out.df)
                                           ELSE heat_altitude_metrics
    /\ UNCHANGED <<files, race_predictions, training_history, activities,
                   results, iterated>>
    /\ UNCHANGED <<connector, repository>>

\* parser.parse_activities(file_path); it assigns no attribute
ParseActivitiesCall ==
    /\ \E file_path \in {None} \cup PathsOf("activities") :
          /\ call' = [op |-> "parse_activities", arg |-> file_path]
          /\ ret' = ParseActivities(files, file_path)
    /\ UNCHANGED <<files, race_predictions, training_history, heat_altitude_metrics,
                   activities, results, iterated>>
    /\ UNCHANGED <<connector, repository>>

NextParse ==
    \/ ParseRacePredictionsCall
    \/ ParseTrainingHistoryCall
    \/ ParseHeatAltitudeMetricsCall
    \/ ParseActivitiesCall

SpecParse == InitParse /\ [][NextParse]_vars

-----------------------------------------------------------------------------
(* The connector called on a remote account *)

parser == <<files, race_predictions, training_history, heat_altitude_metrics,
            activities, results, iterated>>

\* GarminParser() next to the connector, nothing parsed yet
NothingParsed ==
    /\ race_predictions = Unset
    /\ training_history = Unset
    /\ heat_altitude_metrics = Unset
    /\ activities = Unset
    /\ call = NoCall
    /\ ret = NoReturn
    /\ results = NoResults
    /\ iterated = NoOrder

\* connector.connect(username, password), with or without the two arguments,
\* called while no other call on the connector is running; the login succeeds
\* or raises
Connect ==
    /\ frame.pc = "idle"
    /\ \E given \in BOOLEAN, login \in {"ok", "raises"} :
          LET known == credentials \/ given
          IN  /\ credentials' = known
              /\ call' = [op |-> "connect", arg |-> None]
              /\ client' = IF known THEN "Garmin" ELSE client
              /\ connected' = IF known THEN login = "ok" ELSE connected
              /\ ret' = IF ~known THEN Raise("ValueError", None)
                        ELSE IF login = "ok" THEN NoReturn
                        ELSE Raise("Exception", None)
    /\ trace' = << >>
    /\ UNCHANGED <<parser, repository, remote, cache, frame>>

FetchArgs(start_date, end_date, use_cache) ==
    [start_date |-> start_date, end_date |-> end_date, use_cache |-> use_cache]

\* connector.get_heart_rates(start_date, end_date, use_cache)
GetHeartRates ==
    /\ \E start_date, end_date \in DOMAIN remote.days, use_cache \in BOOLEAN :
          LET out == FetchDays("heart_rates", start_date, end_date, use_cache,
                               remote, client, connected, cache)
          IN  /\ call' = [op |-> "get_heart_rates",
                          arg |-> FetchArgs(start_date, end_date, use_cache)]
              /\ ret' = out.ret
              /\ cache' = out.cache
              /\ trace' = out.trace
    /\ UNCHANGED <<parser, repository, remote, credentials, client, connected, frame>>

\* connector.get_sleep_data(start_date, end_date, use_cache)
GetSleepData ==
    /\ \E start_date, end_date \in DOMAIN remote.days, use_cache \in BOOLEAN :
          LET out == FetchDays("sleep_data", start_date, end_date, use_cache,
                               remote, client, connected, cache)
          IN  /\ call' = [op |-> "get_sleep_data",
                          arg |-> FetchArgs(start_date, end_date, use_cache)]
              /\ ret' = out.ret
              /\ cache' = out.cache
              /\ trace' = out.trace
    /\ UNCHANGED <<parser, repository, remote, credentials, client, connected, frame>>

\* connector.get_stress_data(start_date, end_date, use_cache)
GetStressData ==
    /\ \E start_date, end_date \in DOMAIN remote.days, use_cache \in BOOLEAN :
          LET out == FetchDays("stress_data", start_date, end_date, use_cache,
                               remote, client, connected, cache)
          IN  /\ call' = [op |-> "get_stress_data",
                          arg |-> FetchArgs(start_date, end_date, use_cache)]
              /\ ret' = out.ret
              /\ cache' = out.cache
              /\ trace' = out.trace
    /\ UNCHANGED <<parser, repository, remote, credentials, client, connected, frame>>

\* connector.get_race_predictions(use_cache)
GetRacePredictions ==
    /\ \E use_cache \in BOOLEAN :
          LET out == GetRacePredictionsFrom(use_cache, remote, client, connected, cache)
          IN  /\ call' = [op |-> "get_race_predictions", arg |-> use_cache]
              /\ ret' = out.ret
              /\ cache' = out.cache
              /\ trace' = out.trace
    /\ UNCHANGED <<parser, repository, remote, credentials, client, connected, frame>>

\* an account with the response of one day, a connector not yet connected
InitFetch ==
    /\ files = << >>
    /\ NothingParsed
    /\ remote \in { [days |-> <<p>>, activities |-> << >>, details |-> << >>] :
                        p \in DayPayloads }
    /\ credentials = FALSE
    /\ client = "None"
    /\ connected = FALSE
    /\ cache \in {NoCacheDir, EmptyCacheDir}
    /\ trace = << >>
    /\ frame = Idle
    /\ EmptyRepository

NextFetch == Connect \/ GetHeartRates \/ GetSleepData \/ GetStressData

SpecFetch == InitFetch /\ [][NextFetch]_vars

-----------------------------------------------------------------------------
(* get_activity_details_for_all (SpecDetails) *)

\* for idx, row in activities_df.iterrows(): the details of each activity come
\* from its own cache file or from the client, whose answer is cached; an
\* activity whose request raises is left out
RECURSIVE DetailsLoop(_, _, _, _)
DetailsLoop(rows, use_cache, account, c) ==
    IF rows = << >> THEN [all_details |-> << >>, cache |-> c, trace |-> << >>]
    ELSE IF "activityId" \notin DOMAIN Head(rows)
    THEN DetailsLoop(Tail(rows), use_cache, account, c)
    ELSE LET activity_id == Head(rows)["activityId"].val
             specific_cache == <<"activity_detail", "_">> \o Decimal(activity_id) \o <<".json">>
             cached == CacheHit(c, specific_cache) /\ use_cache
             details == IF cached THEN c.files[specific_cache]
                        ELSE account.details[activity_id]
             cached_c == IF cached \/ details = Raises \/ ~c.dir THEN c
                         ELSE [c EXCEPT !.files = (specific_cache :> details) @@ c.files]
             rest == DetailsLoop(Tail(rows), use_cache, account, cached_c)
         IN  [all_details |-> IF details = Raises THEN rest.all_details
                              ELSE rest.all_details @@ (Decimal(activity_id) :> details),
              cache |-> rest.cache,
              trace |-> <<Event("_get_from_cache", specific_cache)>>
                        \o (IF cached THEN << >>
                            ELSE <<Event("get_activity_details", Decimal(activity_id))>>)
                        \o (IF cached \/ details = Raises THEN << >>
                            ELSE <<Event("_cache_result", specific_cache)>>)
                        \o rest.trace]

\* connector.get_activity_details_for_all(activities_df, use_cache, limit);
\* activities_df is None or a table of the first activities, with or without
\* the column activityId, limit is None (0) or a number
GetActivityDetailsForAll ==
    /\ \E given \in BOOLEAN, count \in 0..MaxDetails,
          with_id \in BOOLEAN, use_cache \in BOOLEAN, limit \in 0..MaxDetails :
          LET ids == [i \in 1..count |-> i]
              cache_file == <<"activity_details_all", ".json">>
              looked == CacheLookup(use_cache, cache_file)
              fetched == IF given
                         THEN [df |-> [i \in 1..Len(ids) |->
                                         IF with_id
                                         THEN [activityId |-> PyInt(ids[i]),
                                               startTimeLocal |-> PyStr(Strftime(ids[i]))]
                                         ELSE [startTimeLocal |-> PyStr(Strftime(ids[i]))]],
                               cache |-> cache, trace |-> << >>]
                         ELSE GetActivities("2023-03-10", use_cache, remote, cache)
              activities_df == IF limit # 0 /\ limit < Len(fetched.df)
                               THEN SubSeq(fetched.df, 1, limit) ELSE fetched.df
              loop == DetailsLoop(activities_df, use_cache, remote, fetched.cache)
          IN  /\ given \/ (count = 0 /\ with_id)
              /\ call' = [op |-> "get_activity_details_for_all",
                          arg |-> [given |-> given, count |-> count, with_id |-> with_id,
                                   use_cache |-> use_cache, limit |-> limit]]
              /\ IF ~CheckConnection(client, connected)
                 THEN /\ ret' = Raise("ValueError", None)
                      /\ cache' = cache
                      /\ trace' = << >>
                 ELSE IF use_cache /\ CacheHit(cache, cache_file)
                 THEN /\ ret' = Ok(cache.files[cache_file], None)
                      /\ cache' = cache
                      /\ trace' = looked
                 ELSE IF fetched.df = << >>
                 THEN /\ ret' = Ok(<< >>, None)
                      /\ cache' = fetched.cache
                      /\ trace' = looked \o fetched.trace
                 ELSE /\ ret' = Ok(loop.all_details, None)
                      /\ cache' = IF loop.cache.dir
                                  THEN [loop.cache EXCEPT
                                          !.files = (cache_file :> loop.all_details) @@ @]
                                  ELSE loop.cache
                      /\ trace' = looked \o fetched.trace \o loop.trace
                                     \o <<Event("_cache_result", cache_file)>>
    /\ UNCHANGED <<parser, repository, remote, credentials, client, connected, frame>>

\* an account of MaxDetails activities; the request for the details of an
\* activity raises or gives an object, and one day of heart rates
InitDetails ==
    /\ files = << >>
    /\ NothingParsed
    /\ remote \in { [days |-> <<PyList(<<PyInt(65)>>)>>,
                      activities |-> [i \in 1..MaxDetails |->
                                        [activityId |-> PyInt(i),
                                         startTimeLocal |-> PyStr(Strftime(i))]],
                      details |-> details] :
                        details \in [1..MaxDetails ->
                                       {Raises, PyDict([summaryDTO |-> PyInt(1)])}] }
    /\ credentials = FALSE
    /\ client = "None"
    /\ connected = FALSE
    /\ cache \in {NoCacheDir, EmptyCacheDir}
    /\ trace = << >>
    /\ frame = Idle
    /\ EmptyRepository

NextDetails == Connect \/ GetHeartRates \/ GetActivityDetailsForAll

SpecDetails == InitDetails /\ [][NextDetails]_vars

-----------------------------------------------------------------------------
(* The single-file parsers called on one file, over the values in its rows *)

\* the scores around the three status thresholds, and acclimatization values
\* inside and outside 0..100
\* up to MaxRows consecutive values of a list, none included
Runs(values) ==
    { SubSeq(values, w[1], w[2]) :
        w \in { v \in (1..Len(values)) \X (0..Len(values)) :
                  v[1] - 1 <= v[2] /\ v[2] - v[1] < MaxRows } }

\* activities files: a plain list, the export wrapper alone, and lists of two
\* elements of which one or both are wrappers
ActivitiesContents ==
    { Undecodable, Scalars, Rows(<< >>), Export(<< >>),
      Rows(<<Activity(1, 5)>>),
      Export(<<Activity(1, 5), Activity(2, 10)>>),
      Rows(<<Wrapper(<<Activity(1, 5)>>), Wrapper(<<Activity(2, 10)>>)>>),
      Rows(<<Wrapper(<<Activity(1, 5)>>), Activity(2, 10)>>),
      Rows(<<Activity(2, 10), Wrapper(<<Activity(1, 5)>>)>>) }

\* names with a date token, with eight digits that are no date, and without
DatedName(tag, token) == <<tag, "_", token, "_", "2", "_", "a", ".json">>

\* a directory of one file. Training history rows: an enduranceScore, a
\* score, a score next to an explicit status that no score is given, or a date
\* alone; the scores lie on both sides of each threshold. Heat and altitude
\* rows with values below, in and above 0..100. A file of each family has a
\* time stamp that is no date
InitValues ==
    /\ files \in
          { p :> c :
              p \in { File(InA, "TrainingHistory", "2"), File(InB, "EnduranceScore", "1"),
                      InB \o DatedName("EnduranceScore", "1"),
                      DatedName("EnduranceScore", "9") },
              c \in UNION { { Rows([i \in 1..Len(run) |-> [enduranceScore |-> run[i]]]),
                              Rows([i \in 1..Len(run) |-> [score |-> run[i]]]),
                              Rows([i \in 1..Len(run) |->
                                      [score |-> run[i], trainingStatus |-> "peaking"]]),
                              Rows([i \in 1..Len(run) |-> [calendarDate |-> i]]) } :
                            run \in Runs(<<40, 41, 60, 61, 80, 81>>) } }
          \cup { p :> c :
                    p \in { File(InA, "MetricsHeatAltitude", "2"),
                            InB \o DatedName("MetricsAcuteTrainingLoad", "2"),
                            DatedName("MetricsAcuteTrainingLoad", "9") },
                    c \in { Rows([i \in 1..Len(run) |->
                                     [calendarDate |-> i, heatAcclimatization |-> run[i],
                                      altitudeAcclimatization |-> run[Len(run) + 1 - i]]]) :
                               run \in Runs(<<0 - 5, 0, 50, 100, 150>>) } }
          \cup { File(InA, "summarizedActivities", "2") :> c : c \in ActivitiesContents }
          \cup { File(InA, "RunRacePredictions", "2")
                     :> Rows(<<[timestamp |-> Unparseable, raceTime5K |-> 1500]>>),
                 File(InA, "TrainingHistory", "2")
                     :> Rows(<<[calendarDate |-> 1], [calendarDate |-> Unparseable]>>),
                 File(InA, "MetricsHeatAltitude", "2")
                     :> Rows(<<[calendarDate |-> Unparseable, heatAcclimatization |-> 50]>>),
                 File(InA, "summarizedActivities", "2")
                     :> Rows(<<[activityId |-> 1, startTimeLocal |-> Unparseable]>>) }
    /\ NothingParsed
    /\ Constructed
    /\ EmptyRepository

SpecValues == InitValues /\ [][NextParse]_vars

-----------------------------------------------------------------------------
(* Race predictions from an export file and from a remote account *)

\* a race predictions export: one row with all four race times, one row with
\* the 5K time alone, or two rows of which the second has no 5K time;
\* an account with no activity, with one run, with two runs in one week, with
\* two runs in different weeks given latest first, or with a ride only
InitRace ==
    /\ files \in
          { File(InA, "RunRacePredictions", "2") :> c :
              c \in { Undecodable,
                      Rows(<<Prediction(1, 1500)>>),
                      Rows(<<Prediction(1, 1500), [timestamp |-> 2]>>) }
                    \cup { Rows(<<[timestamp |-> 1, raceTime5K |-> s, raceTime10K |-> 2 * s,
                                    raceTimeHalf |-> 6300, raceTimeMarathon |-> 14400]>>) :
                               s \in (0..MaxSeconds) \cup {599, 600, 1500, 3599, 3600} } }
    /\ NothingParsed
    /\ remote \in
          { [days |-> << >>, activities |-> list, details |-> << >>] :
              list \in { << >>,
                         <<RemoteActivity("running", 4, 200, 60)>>,
                         <<RemoteActivity("running", 4, 200, 60),
                           RemoteActivity("running", 5, 250, 90)>>,
                         <<RemoteActivity("running", 12, 200, 90),
                           RemoteActivity("running", 4, 200, 60)>>,
                         <<RemoteActivity("cycling", 6, 500, 60)>> } }
    /\ credentials = TRUE
    /\ client = "None"
    /\ connected = FALSE
    /\ cache = EmptyCacheDir
    /\ trace = << >>
    /\ frame = Idle
    /\ EmptyRepository

NextRace == ParseRacePredictionsCall \/ Connect \/ GetRacePredictions

SpecRace == InitRace /\ [][NextRace]_vars

-----------------------------------------------------------------------------
(* The day-by-day fetchers, one day at a time (SpecLoop) *)

\* the fetcher of a family
FetchOp(family) ==
    IF family = "heart_rates" THEN "get_heart_rates"
    ELSE IF family = "sleep_data" THEN "get_sleep_data"
    ELSE "get_stress_data"

\* get_heart_rates, get_sleep_data or get_stress_data is called and runs up to
\* its while loop: it raises when not connected, returns the cached rows on a
\* hit, and otherwise sets out with the first day
BeginFetch ==
    /\ frame.pc = "idle"
    /\ \E family \in {"heart_rates", "sleep_data", "stress_data"},
          start_date, end_date \in DOMAIN remote.days, use_cache \in BOOLEAN :
          LET cache_file == CacheFile(family, start_date, end_date)
              this == [op |-> FetchOp(family),
                       arg |-> FetchArgs(start_date, end_date, use_cache)]
          IN  /\ \/ cache_file \in DOMAIN cache.files
                 \/ Cardinality(DOMAIN cache.files) < MaxCached
              /\ IF ~CheckConnection(client, connected)
                 THEN /\ call' = this
                      /\ ret' = Raise("ValueError", None)
                      /\ trace' = << >>
                      /\ frame' = frame
                 ELSE IF use_cache /\ CacheHit(cache, cache_file)
                 THEN /\ call' = this
                      /\ ret' = Ok(RecordsFrame(cache.files[cache_file]), None)
                      /\ trace' = CacheLookup(use_cache, cache_file)
                      /\ frame' = frame
                 ELSE /\ trace' = CacheLookup(use_cache, cache_file)
                      /\ frame' = [pc |-> "while", family |-> family,
                                   start_date |-> start_date, end_date |-> end_date,
                                   use_cache |-> use_cache, current |-> start_date,
                                   all_data |-> << >>]
                      /\ UNCHANGED <<call, ret>>
    /\ UNCHANGED <<parser, repository, remote, credentials, client, connected, cache>>

\* the loop left at the first day whose request raises
RequestDayUntilRaise ==
    /\ frame.pc = "while"
    /\ frame.current <= frame.end_date
    /\ LET day_data == Response(remote.days, frame.current)
       IN  /\ trace' = Append(trace, Event(frame.family, Strftime(frame.current)))
           /\ frame' = [frame EXCEPT
                          !.all_data = IF day_data = Raises THEN @
                                       ELSE @ \o DayRows(frame.family, day_data,
                                                         Strftime(frame.current)),
                          !.current = IF day_data = Raises THEN frame.end_date + 1
                                      ELSE @ + 1]
    /\ UNCHANGED <<parser, repository, remote, credentials, client, connected, cache,
                   call, ret>>

\* one pass of `while current <= end`: the day is requested, its rows are
\* appended unless the request raised, and current moves to the next day
RequestDay ==
    /\ frame.pc = "while"
    /\ frame.current <= frame.end_date
    /\ LET day_data == Response(remote.days, frame.current)
       IN  /\ trace' = Append(trace, Event(frame.family, Strftime(frame.current)))
           /\ frame' = [frame EXCEPT
                          !.all_data = IF day_data = Raises THEN @
                                       ELSE @ \o DayRows(frame.family, day_data,
                                                         Strftime(frame.current)),
                          !.current = @ + 1]
    /\ UNCHANGED <<parser, repository, remote, credentials, client, connected, cache,
                   call, ret>>

\* the loop is left: the rows are cached and returned as a table
EndFetch ==
    /\ frame.pc = "while"
    /\ frame.current > frame.end_date
    /\ LET cache_file == CacheFile(frame.family, frame.start_date, frame.end_date)
       IN  /\ cache' = CacheResult(cache, frame.all_data, cache_file)
           /\ trace' = Append(trace, Event("_cache_result", cache_file))
           /\ call' = [op |-> FetchOp(frame.family),
                       arg |-> FetchArgs(frame.start_date, frame.end_date, frame.use_cache)]
           /\ ret' = Ok(DateConverted(RecordsFrame(frame.all_data)), None)
           /\ frame' = Idle
    /\ UNCHANGED <<parser, repository, remote, credentials, client, connected>>

\* an account of up to MaxDays days; a day's request raises or gives a list of
\* one value
InitLoop ==
    /\ files = << >>
    /\ NothingParsed
    /\ remote \in { [days |-> days, activities |-> << >>, details |-> << >>] :
                        days \in UNION { [1..n -> {Raises, PyList(<<PyInt(65)>>)}] :
                                           n \in 1..MaxDays } }
    /\ credentials = TRUE
    /\ client = "None"
    /\ connected = FALSE
    /\ cache \in {NoCacheDir, EmptyCacheDir}
    /\ trace = << >>
    /\ frame = Idle
    /\ EmptyRepository

NextLoop == Connect \/ BeginFetch \/ RequestDay \/ EndFetch

\* a fetch that has entered its loop keeps running
SpecLoop ==
    InitLoop /\ [][NextLoop]_vars /\ WF_vars(RequestDay) /\ WF_vars(EndFetch)

-----------------------------------------------------------------------------
(* The repository of snapshots (SpecRepo) *)

\* two of the keys parse_all_available() produces, each saved by _process_files
IngestionKeys == {"race_predictions", "heat_altitude_metrics"}

\* json.dump(data_dict, f, indent=2, default=str) followed by json.load(f):
\* a Timestamp comes back as its str() text
DefaultStr(data) ==
    [i \in 1..Len(data) |->
        [c \in DOMAIN data[i] |->
            IF data[i][c].kind = "Timestamp"
            THEN PyStr(Strftime(data[i][c].val) \o <<" 00:00:00">>)
            ELSE data[i][c]]]

\* the seconds written without a leading zero
StampUnpadded(now) == <<"20240310_1200">> \o Decimal(now)

\* datetime.now().strftime("%Y%m%d_%H%M%S") in the minute after 12:00
Stamp(now) == <<"20240310_1200">> \o ZeroPadded2(now)

\* user_id or 'default', and the files of os.listdir(user_dir) ending in .json
UserFiles(st, data_type, user_id) ==
    LET user == IF user_id = "None" THEN "default" ELSE user_id
    IN  { p \in DOMAIN st : p.data_type = data_type /\ p.user = user }

\* save_data(data_type, data, user_id), called by _process_files for every
\* table parse_all_available() returned: open(filepath, 'w') replaces a file
\* of the same name; the tables saved have one row with a converted time
\* stamp and a number
SaveData ==
    \E data_type \in IngestionKeys, n \in {1500, 1600}, user_id \in {"None", "u1"} :
        LET data == <<[timestamp |-> [kind |-> "Timestamp", val |-> 1],
                       raceTime5K |-> PyInt(n)]>>
            filename == <<data_type, "_">> \o Stamp(clock) \o <<".json">>
            filepath == [data_type |-> data_type,
                         user |-> IF user_id = "None" THEN "default" ELSE user_id,
                         name |-> filename]
        IN  /\ storage' = (filepath :> [data |-> DefaultStr(data), mtime |-> clock])
                              @@ storage
            /\ Cardinality(DOMAIN storage') <= MaxSnapshots
            /\ call' = [op |-> "save_data",
                        arg |-> [data_type |-> data_type, data |-> data,
                                 user_id |-> user_id]]
            /\ ret' = Ok(EmptyFrame, filename)
            /\ UNCHANGED <<parser, connector, clock>>

\* the wall clock moves on to the next second
Tick ==
    /\ clock < 8 + MaxTicks
    /\ clock' = clock + 1
    /\ UNCHANGED <<parser, connector, storage, call, ret>>

\* load_data(data_type, user_id, timestamp): the first file whose name holds
\* the time stamp, or the first of files.sort(reverse=True)
LoadData ==
    \E data_type \in IngestionKeys, user_id \in {"None", "u1"},
       timestamp \in {None, Stamp(clock)} :
        LET files_ == UserFiles(storage, data_type, user_id)
            matching_files ==
                { p \in files_ : p.name = <<data_type, "_">> \o timestamp \o <<".json">> }
            sorted == SortReverse({ p.name : p \in files_ })
            found == IF timestamp # None THEN matching_files
                     ELSE { p \in files_ : p.name = sorted[1] }
        IN  /\ call' = [op |-> "load_data",
                        arg |-> [data_type |-> data_type, user_id |-> user_id,
                                 timestamp |-> timestamp]]
            /\ ret' = IF found = {} THEN NoReturn
                      ELSE LET p == CHOOSE p \in found : TRUE
                           IN  Ok(storage[p].data, p.name)
            /\ UNCHANGED <<parser, connector, repository>>

\* list_available_data(user_id): of the data types race_predictions,
\* training_history, metrics and activities, those that have files, each with
\* its file names sorted in reverse
ListAvailableData ==
    \E user_id \in {"None", "u1"} :
        LET listed == { k \in {"race_predictions", "training_history", "metrics",
                               "activities"} : UserFiles(storage, k, user_id) # {} }
        IN  /\ call' = [op |-> "list_available_data", arg |-> [user_id |-> user_id]]
            /\ ret' = Ok([k \in listed |->
                            SortReverse({ p.name : p \in UserFiles(storage, k, user_id) })],
                         None)
            /\ UNCHANGED <<parser, connector, repository>>

NextRepo == SaveData \/ Tick \/ LoadData \/ ListAvailableData

SpecRepo == Init /\ [][NextRepo]_vars

-----------------------------------------------------------------------------
(* Properties of the aggregation (Spec) *)

Aggregated == call.op \in {"parse_all_activities", "parse_all_available"}

\* the activities table the last aggregation returned
ActivitiesTable ==
    IF call.op = "parse_all_activities" THEN ret.df
    ELSE IF call.op = "parse_all_available" /\ "activities" \in DOMAIN results
    THEN results["activities"]
    ELSE EmptyFrame

\* the activity objects of the decodable files, in iteration order then file order
SourceActivities ==
    LET order == iterated.activities
    IN  Flatten([i \in 1..Len(order) |->
                    IF files[order[i]].kind = "rows" THEN files[order[i]].data ELSE << >>])

HasId(object) == "activityId" \in DOMAIN object

\* C1: the table an aggregation returns holds at most one row per activityId,
\* and the row of an id is the first object with that id in file-iteration and
\* row order, whatever the other fields of the later objects are.
C1_OneRowPerIdFirstKept ==
    Aggregated =>
        LET t == ActivitiesTable
            src == SourceActivities
        IN  /\ \A i, j \in 1..Len(t) :
                  ("activityId" \in Columns(t) /\ t[i]["activityId"] = t[j]["activityId"])
                      => i = j
            /\ \A k \in 1..Len(src) :
                  ( /\ HasId(src[k])
                    /\ \A e \in 1..(k-1) :
                          HasId(src[e]) => src[e]["activityId"] # src[k]["activityId"] )
                  => \E i \in 1..Len(t) : t[i] = Fill(src[k], Columns(t))
            /\ \A i \in 1..Len(t) : \E k \in 1..Len(src) : t[i] = Fill(src[k], Columns(t))

\* two files repeat activity 1 with different distances, and the one kept is
\* the one of the file iterated first
C1_Witness ==
    /\ Aggregated
    /\ Len(iterated.activities) = 2
    /\ files[iterated.activities[1]] = Rows(<<Activity(1, 10), Activity(2, 5)>>)
    /\ files[iterated.activities[2]] = Rows(<<Activity(1, 5)>>)
    /\ ActivitiesTable = <<Activity(1, 10), Activity(2, 5)>>

FullRowFamilies == {"race_predictions", "training_history", "heat_altitude_metrics"}

FamilyPattern ==
    [race_predictions |-> "RunRacePredictions", training_history |-> "TrainingHistory",
     heat_altitude_metrics |-> "MetricsHeatAltitude", activities |-> "summarizedActivities"]

\* what the family's parser gives for one file of a directory
ParsedIn(fs, k, p) ==
    CASE k = "race_predictions" -> ParseRacePredictions(fs, p)
      [] k = "training_history" -> ParseTrainingHistory(fs, p, Now)
      [] k = "heat_altitude_metrics" -> ParseHeatAltitudeMetrics(fs, p, Now)
      [] k = "activities" -> ParseActivities(fs, p)

ParsedFile(k, p) == ParsedIn(files, k, p)

\* the rows of the family's files that parsed
ParsedRows(k) ==
    UNION { RowSet(ParsedFile(k, p).df) :
            p \in { q \in Glob(files, FamilyPattern[k]) : ParsedFile(k, q).exc = "none" } }

\* C2: in the mapping of parse_all_available each of the three full-row
\* families holds every distinct parsed row exactly once: rows that differ in
\* any field are both kept, rows equal in every field are kept once.
C2_FullRowDedup ==
    call.op = "parse_all_available" =>
        \A k \in FullRowFamilies :
            LET t == IF k \in DOMAIN results THEN results[k] ELSE EmptyFrame
            IN  /\ RowSet(t) = ParsedRows(k)
                /\ \A i, j \in 1..Len(t) : t[i] = t[j] => i = j

\* two prediction files share one row and one of them has a second row with
\* the same timestamp and another race time: three parsed rows, two kept
C2_Witness ==
    /\ call.op = "parse_all_available"
    /\ \E p, q \in DOMAIN files :
          /\ files[p] = Rows(<<Prediction(1, 1500)>>)
          /\ files[q] = Rows(<<Prediction(1, 1500), Prediction(1, 1505)>>)
    /\ "race_predictions" \in DOMAIN results
    /\ Len(results["race_predictions"]) = 2
    /\ \E i, j \in 1..2 : /\ results["race_predictions"][i]["timestamp"]
                               = results["race_predictions"][j]["timestamp"]
                            /\ i # j

TableOf(res, k) == IF k \in DOMAIN res THEN res[k] ELSE EmptyFrame

Ids(t) == IF "activityId" \in Columns(t)
          THEN { t[i]["activityId"] : i \in 1..Len(t) } ELSE {}

\* the directory without one of its files
Without(q) == [p \in DOMAIN files \ {q} |-> files[p]]

\* the mappings parse_all_available can return over a directory
Returned(fs) ==
    { AllAvailable(fs, r, t, m, a, Now).results :
        r \in Orders(Glob(fs, "RunRacePredictions")),
        t \in Orders(Glob(fs, "TrainingHistory")),
        m \in Orders(Glob(fs, "MetricsHeatAltitude")),
        a \in Orders(FindAllActivitiesFiles(fs)) }

\* a second copy of a file, under another name of the same family
Copies ==
    { pq \in (DOMAIN files) \X (DOMAIN files) :
        /\ pq[1] # pq[2]
        /\ files[pq[1]] = files[pq[2]]
        /\ \E k \in DOMAIN FamilyPattern :
              {pq[1], pq[2]} \subseteq Glob(files, FamilyPattern[k]) }

SameAsSets(res1, res2) ==
    /\ DOMAIN res1 = DOMAIN res2
    /\ \A k \in FullRowFamilies : RowSet(TableOf(res1, k)) = RowSet(TableOf(res2, k))
    /\ Ids(TableOf(res1, "activities")) = Ids(TableOf(res2, "activities"))

\* the copy of a file adds no row: row for row in the full-row families, id
\* for id in activities, where the row count is also unchanged whenever the
\* table has an activityId column to deduplicate on
NoRowAdded(res, base) ==
    /\ SameAsSets(res, base)
    /\ \A k \in FullRowFamilies : Len(TableOf(res, k)) = Len(TableOf(base, k))
    /\ "activityId" \in Columns(TableOf(res, "activities"))
          => Len(TableOf(res, "activities")) = Len(TableOf(base, "activities"))

C4_TableIsFunctionOfFileSet ==
    Aggregated =>
        \A order \in Orders(FindAllActivitiesFiles(files)) :
            RowSet(ParseAllActivities(files, order).df) = RowSet(ActivitiesTable)

\* C5: a family key is missing from the mapping of parse_all_available
\* exactly when no file matched the family's pattern.
C5_KeyAbsentIffNoFile ==
    call.op = "parse_all_available" =>
        \A k \in DOMAIN FamilyPattern :
            (k \notin DOMAIN results) <=> (Glob(files, FamilyPattern[k]) = {})

\* a row of a parsed file is represented in the family's table: as itself
\* where rows are compared whole, by its activityId where that is the key
Represented(r, t) ==
    IF "activityId" \in Columns(t)
    THEN \E i \in 1..Len(t) : t[i]["activityId"] = Fill(r, Columns(t))["activityId"]
    ELSE Fill(r, Columns(t)) \in RowSet(t)

\* C6: an aggregation parses every discovered file of a family once, and a
\* file that raises or is malformed takes nothing away: every row of every
\* file that parsed is represented in its family's table.
C6_BadFileSkipped ==
    call.op = "parse_all_available" =>
        \A k \in DOMAIN FamilyPattern :
            /\ iterated[k] \in Orders(Glob(files, FamilyPattern[k]))
            /\ \A p \in Glob(files, FamilyPattern[k]) :
                  ParsedFile(k, p).exc = "none" =>
                      \A r \in RowSet(ParsedFile(k, p).df) : Represented(r, TableOf(results, k))

\* the predictions file iterated first cannot be decoded and the rows of the
\* second are in the result
C6_Witness ==
    /\ call.op = "parse_all_available"
    /\ Len(iterated["race_predictions"]) = 2
    /\ files[iterated["race_predictions"][1]] = Undecodable
    /\ files[iterated["race_predictions"][2]].kind = "rows"
    /\ Len(TableOf(results, "race_predictions")) = 2

-----------------------------------------------------------------------------
(* Properties of the single-file parsers (SpecParse) *)

OpFamily ==
    [parse_race_predictions |-> "race_predictions",
     parse_training_history |-> "training_history",
     parse_heat_altitude_metrics |-> "heat_altitude_metrics",
     parse_activities |-> "activities"]

Parsed == call.op \in DOMAIN OpFamily

\* the files of the directory that match a pattern of the family
Matching(family) == UNION { Glob(files, tag) : tag \in FamilyTags[family] }

\* C7: every parse function reports a source that does not exist as a
\* not-found error, never as an empty table, and an existing source never as
\* not found; a parse without a path whose lookup matches nothing raises
\* FileNotFoundError.
C7_NotFoundDistinct ==
    Parsed =>
        /\ (call.arg # None /\ call.arg \notin DOMAIN files) => ret.exc = "FileNotFoundError"
        /\ (call.arg # None /\ call.arg \in DOMAIN files) => ret.exc # "FileNotFoundError"
        /\ (call.arg = None /\ Matching(OpFamily[call.op]) = {})
              => ret.exc = "FileNotFoundError"
        /\ (call.arg = None /\ Matching(OpFamily[call.op]) # {})
              => ret.exc # "FileNotFoundError"

\* C8: for each family, parsing a file that exists but cannot be decoded or
\* is structurally unusable returns an empty table and does not raise.
C8_UnusableGivesEmpty ==
    (Parsed /\ ret.path \in DOMAIN files
            /\ files[ret.path].kind \in {"undecodable", "scalars"})
        => (ret.exc = "none" /\ ret.df = EmptyFrame)

PrimaryTag == [training_history |-> "TrainingHistory",
               heat_altitude_metrics |-> "MetricsHeatAltitude"]
FallbackTag == [training_history |-> "EnduranceScore",
                heat_altitude_metrics |-> "MetricsAcuteTrainingLoad"]

\* C9: when the training-history or heat/altitude source is looked up, a
\* file of the primary pattern is chosen whenever one exists, and a file that
\* matches only the fallback pattern is chosen only when none exists.
C9_PrimaryPreferred ==
    (Parsed /\ call.arg = None /\ OpFamily[call.op] \in DOMAIN PrimaryTag) =>
        LET primary == Glob(files, PrimaryTag[OpFamily[call.op]])
            fallback == Glob(files, FallbackTag[OpFamily[call.op]])
        IN  /\ primary # {} => ret.path \in primary
            /\ ret.path \in fallback \ primary => primary = {}
            /\ primary \cup fallback # {} => ret.path \in primary \cup fallback

\* a TrainingHistory file and an EnduranceScore file with the greater path are
\* both there, and the TrainingHistory file was chosen
C9_Witness ==
    /\ call = [op |-> "parse_training_history", arg |-> None]
    /\ File(InB, "EnduranceScore", "1") \in DOMAIN files
    /\ ret.path = File(InA, "TrainingHistory", "2")
    /\ StrLess(ret.path, File(InB, "EnduranceScore", "1"))

\* C10: among several files matching one pattern the one chosen has the
\* lexicographically greatest filename, wherever the candidates lie.
C10_GreatestFilenameChosen ==
    (Parsed /\ call.arg = None /\ ret.path # None) =>
        \A tag \in FamilyTags[OpFamily[call.op]] :
            ret.path \in Glob(files, tag) =>
                \A m \in Glob(files, tag) : ~StrLess(Name(ret.path), Name(m))

-----------------------------------------------------------------------------
(* Properties of the race predictions (SpecRace) *)

\* the text "M:SS" of x seconds: the decimal of x // 60, a colon, and the two
\* digits of x % 60
MinutesSeconds(x) ==
    Decimal(x \div 60)
    \o <<":", DigitChars[((x % 60) \div 10) + 1], DigitChars[((x % 60) % 10) + 1]>>

\* the race predictions table the connector returned last
FetchedRacePredictions ==
    IF call.op = "get_race_predictions" /\ ret.exc = "none" THEN ret.df ELSE EmptyFrame

\* C11: in the table parse_race_predictions assigned and in the table
\* get_race_predictions returned, every race-time column that is present has its
\* _formatted column, and for a non-negative number x of seconds that column
\* holds the decimal of x // 60, a colon, and x % 60 zero-padded to two digits
C11_FormattedRaceTimes ==
    /\ \A i \in 1..Len(race_predictions.df) :
         \A col \in DOMAIN RaceTimeColumns \cap DOMAIN race_predictions.df[i] :
            LET row == race_predictions.df[i]
            IN  /\ RaceTimeColumns[col] \in DOMAIN row
                /\ row[col] >= 0 => row[RaceTimeColumns[col]] = MinutesSeconds(row[col])
    /\ \A i \in 1..Len(FetchedRacePredictions) :
         \A col \in DOMAIN RaceTimeColumns \cap DOMAIN FetchedRacePredictions[i] :
            LET row == FetchedRacePredictions[i]
            IN  /\ RaceTimeColumns[col] \in DOMAIN row
                /\ row[col].kind = "int" /\ row[col].val >= 0
                   => row[RaceTimeColumns[col]] = PyStr(MinutesSeconds(row[col].val))

\* a file with a 5K time of 61 seconds was parsed to 1:01 and, after it, an
\* account with runs in two weeks was fetched, the first week's 5K time of
\* 1575 seconds shown as 26:15
C11_Witness ==
    /\ race_predictions.isNone = FALSE
    /\ Len(race_predictions.df) = 1
    /\ race_predictions.df[1]["raceTime5K"] = 61
    /\ race_predictions.df[1]["raceTime5K_formatted"] = <<"1", ":", "0", "1">>
    /\ race_predictions.df[1]["raceTimeMarathon_formatted"] = <<"2", "4", "0", ":", "0", "0">>
    /\ Len(FetchedRacePredictions) = 2
    /\ FetchedRacePredictions[1]["raceTime5K"] = PyInt(1575)
    /\ FetchedRacePredictions[1]["raceTime5K_formatted"] = PyStr(<<"2", "6", ":", "1", "5">>)

-----------------------------------------------------------------------------
(* Properties of the parsed values (SpecValues) *)

\* the last call was this parse and it returned the table of a file of rows
ParsedRowsBy(op) ==
    /\ call.op = op
    /\ ret.exc = "none"
    /\ ret.path \in DOMAIN files
    /\ files[ret.path].kind = "rows"

\* the rows of the file the last parse read
SourceRows == files[ret.path].data

SourceColumns == UNION { DOMAIN SourceRows[i] : i \in 1..Len(SourceRows) }

\* the status the thresholds give a score
StatusOfScore(s) ==
    CHOOSE st \in {"productive", "maintaining", "recovery", "unproductive"} :
        /\ st = "productive" <=> s > 80
        /\ st = "maintaining" <=> (60 < s /\ s <= 80)
        /\ st = "recovery" <=> (40 < s /\ s <= 60)
        /\ st = "unproductive" <=> s <= 40

\* C12: a parsed training history whose source has a score column
\* (enduranceScore or score) and no status column has, in every row, the status
\* the thresholds give that row's score; a status column of the source is
\* returned as it is in the source
C12_StatusFromScore ==
    ParsedRowsBy("parse_training_history") =>
        /\ "trainingStatus" \notin SourceColumns =>
              \A col \in {"enduranceScore", "score"} \cap SourceColumns :
                 \A i \in 1..Len(ret.df) :
                    /\ "trainingStatus" \in DOMAIN ret.df[i]
                    /\ ret.df[i]["trainingStatus"] = StatusOfScore(SourceRows[i][col])
        /\ "trainingStatus" \in SourceColumns =>
              \A i \in 1..Len(ret.df) :
                 ret.df[i]["trainingStatus"] = SourceRows[i]["trainingStatus"]

\* C13: every row of a table parse_training_history returned has a
\* trainingStatus
C13_StatusPopulated ==
    call.op = "parse_training_history" /\ ret.exc = "none" =>
        \A i \in 1..Len(ret.df) : "trainingStatus" \in DOMAIN ret.df[i]

\* the first date token of the name of the file the last parse read
FirstDatePart ==
    CHOOSE i \in DateParts(Name(ret.path)) : \A j \in DateParts(Name(ret.path)) : i <= j

\* the last parse read an alternate-format file whose name has a date token
ParsedDatedFile ==
    /\ \/ /\ ParsedRowsBy("parse_training_history")
          /\ "EnduranceScore" \in Range(Name(ret.path))
       \/ /\ ParsedRowsBy("parse_heat_altitude_metrics")
          /\ "MetricsAcuteTrainingLoad" \in Range(Name(ret.path))
    /\ DateParts(Name(ret.path)) # {}
    /\ IsDate(Name(ret.path)[FirstDatePart])

\* C14: row i (counted from 0) of an EnduranceScore or MetricsAcuteTrainingLoad
\* file whose name has a date token gets, as calendarDate and as timestamp, the
\* token's date plus i days; the table has the rows of the file
C14_DatesFromFilename ==
    ParsedDatedFile =>
        /\ Len(ret.df) = Len(SourceRows)
        /\ \A i \in 1..Len(ret.df) :
              /\ ret.df[i]["calendarDate"] = StartDate(Name(ret.path)[FirstDatePart]) + (i - 1)
              /\ ret.df[i]["timestamp"] = StartDate(Name(ret.path)[FirstDatePart]) + (i - 1)

\* an EnduranceScore file named for day 10 was parsed to three rows dated 10,
\* 11 and 12
C14_Witness ==
    /\ ParsedDatedFile
    /\ call.op = "parse_training_history"
    /\ Len(ret.df) = 3
    /\ ret.df[1]["calendarDate"] = 10
    /\ ret.df[2]["calendarDate"] = 11
    /\ ret.df[3]["timestamp"] = 12

\* C15: every heatAcclimatization and altitudeAcclimatization value of a table
\* parse_heat_altitude_metrics returned lies in 0..100
C15_AcclimatizationInRange ==
    call.op = "parse_heat_altitude_metrics" /\ ret.exc = "none" =>
        \A i \in 1..Len(ret.df) :
           \A col \in {"heatAcclimatization", "altitudeAcclimatization"} \cap DOMAIN ret.df[i] :
              0 <= ret.df[i][col] /\ ret.df[i][col] <= 100

\* the row list the claim gives a decoded list: the inner list of a sole
\* wrapper element, the list itself otherwise
RowListOf(data) ==
    IF Len(data) = 1 /\ "summarizedActivitiesExport" \in DOMAIN data[1]
    THEN data[1]["summarizedActivitiesExport"]
    ELSE data

\* C16: parse_activities returns the table of the inner list when the decoded
\* list has one element and that element holds summarizedActivitiesExport, and
\* the table of the decoded list itself in every other case
C16_UnwrapOnlySoleWrapper ==
    ParsedRowsBy("parse_activities") =>
        ret.df = ConvertActivityColumns(DataFrame(RowListOf(SourceRows)))

-----------------------------------------------------------------------------
(* Properties of the day-by-day fetchers (SpecFetch) *)

FetchOps == {"get_heart_rates", "get_sleep_data", "get_stress_data"}

FamilyOf(op) ==
    IF op = "get_heart_rates" THEN "heart_rates"
    ELSE IF op = "get_sleep_data" THEN "sleep_data"
    ELSE "stress_data"

\* the nested-array keys of each fetcher
FamilyKeys(op) ==
    IF op = "get_heart_rates" THEN {"heartRateValues", "values"}
    ELSE IF op = "get_sleep_data" THEN {"sleepLevels"}
    ELSE {"stressValues"}

\* the last call was this fetch and it returned a table
Fetched(op) == call.op = op /\ ret.exc = "none"

\* the response of the one day of the account, and that day's date
DayPayload == remote.days[1]
DayDate == Strftime(1)

\* the returned table is the table of these rows, with the date as text (from
\* the cache) or converted
Emits(rows) ==
    \/ ret.df = RecordsFrame(rows)
    \/ ret.df = DateConverted(RecordsFrame(rows))

IsPair(v) == IsList(v) /\ Len(v.val) = 2
IsScalar(v) == v.kind \in {"int", "str"}

IsPairList(v) == IsList(v) /\ Len(v.val) > 0 /\ \A i \in 1..Len(v.val) : IsPair(v.val[i])
IsScalarList(v) == IsList(v) /\ Len(v.val) > 0 /\ \A i \in 1..Len(v.val) : IsScalar(v.val[i])

\* the list rules: an object with the date added, a pair as timestamp and
\* value, a scalar as value
ListRules(items, date) ==
    [i \in 1..Len(items) |->
        IF IsDict(items[i]) THEN [k \in DOMAIN items[i].val \cup {"date"} |->
                                    IF k = "date" THEN PyStr(date) ELSE items[i].val[k]]
        ELSE IF IsPair(items[i])
        THEN [date |-> PyStr(date), timestamp |-> items[i].val[1], value |-> items[i].val[2]]
        ELSE [date |-> PyStr(date), value |-> items[i]]]

\* C17: a day's response that is a list of [x, y] pairs gives, in the heart
\* rate and in the stress fetcher, one row {date, timestamp: x, value: y} per pair
C17_PairsBecomeRows ==
    \A op \in {"get_heart_rates", "get_stress_data"} :
       Fetched(op) /\ IsPairList(DayPayload) =>
          Emits([i \in 1..Len(DayPayload.val) |->
                   [date |-> PyStr(DayDate), timestamp |-> DayPayload.val[i].val[1],
                    value |-> DayPayload.val[i].val[2]]])

\* the text cut to 100 characters and an ellipsis when it is longer
CutTo100(text) ==
    IF Len(text) <= 100 THEN text
    ELSE [i \in 1..103 |-> IF i <= 100 THEN text[i] ELSE "."]

\* C18: a day's response that is text holding JSON gives the rows the decoded
\* value gives when it is the response itself; text that is no JSON gives the
\* one row {date, raw_data} with the text cut to 100 characters and an ellipsis
C18_TextResponseDecoded ==
    \A op \in FetchOps :
       Fetched(op) /\ IsStr(DayPayload) =>
          IF JsonLoads(DayPayload.val) = JSONDecodeError
          THEN Emits(<<[date |-> PyStr(DayDate), raw_data |-> PyStr(CutTo100(DayPayload.val))]>>)
          ELSE Emits(DayRows(FamilyOf(op), JsonLoads(DayPayload.val), DayDate))

\* C19: a day's response that is an object with a list under a nested key of
\* the fetcher's family gives the rows of that list by the list rules, and not
\* the object as one row
C19_NestedArrayNormalised ==
    \A op \in FetchOps :
       \A key \in FamilyKeys(op) :
          (/\ Fetched(op)
           /\ IsDict(DayPayload)
           /\ key \in DOMAIN DayPayload.val
           /\ IsList(DayPayload.val[key]))
          => Emits(ListRules(DayPayload.val[key].val, DayDate))

\* C20: a day's response that is a list of scalars gives, in each of the three
\* fetchers, one row {date, value: scalar} per scalar with the scalar unchanged
C20_ScalarsUnchanged ==
    \A op \in FetchOps :
       Fetched(op) /\ IsScalarList(DayPayload) =>
          Emits([i \in 1..Len(DayPayload.val) |->
                   [date |-> PyStr(DayDate), value |-> DayPayload.val[i]]])

-----------------------------------------------------------------------------
(* Properties of a fetch taken one day at a time (SpecLoop) *)

\* a fetch has just returned after going through its loop
LoopReturned ==
    /\ frame.pc = "idle"
    /\ call.op \in FetchOps
    /\ ret.exc = "none"
    /\ trace # << >>
    /\ trace[Len(trace)].method = "_cache_result"

\* the days the client was asked for, in the order of the requests
RequestedDays ==
    LET asked == SelectSeq(trace, LAMBDA e : e.method = FamilyOf(call.op))
    IN  [i \in 1..Len(asked) |-> asked[i].arg]

\* the days of the range of the last call, ascending
DaysOfRange ==
    [i \in 1..(call.arg.end_date + 1 - call.arg.start_date) |->
        call.arg.start_date + i - 1]

\* the rows of the days of the range whose request did not raise
RowsOfRange ==
    Flatten([i \in 1..Len(DaysOfRange) |->
                IF remote.days[DaysOfRange[i]] = Raises THEN << >>
                ELSE DayRows(FamilyOf(call.op), remote.days[DaysOfRange[i]],
                             Strftime(DaysOfRange[i]))])

\* C21: a fetch that misses the cache asks the client for every day of the
\* range once, in ascending order, and returns the rows of all days whose
\* request did not raise; a fetch that has entered its loop returns
C21_EveryDayOnceThenReturns ==
    /\ [](LoopReturned =>
            /\ RequestedDays = [i \in 1..Len(DaysOfRange) |-> Strftime(DaysOfRange[i])]
            /\ ret.df = DateConverted(RecordsFrame(RowsOfRange)))
    /\ (frame.pc = "while" ~> frame.pc = "idle")

\* a fetch over two days returned the row of the second day after the request
\* of the first day raised
C21_Witness ==
    /\ LoopReturned
    /\ Len(DaysOfRange) = 2
    /\ remote.days[1] = Raises
    /\ Len(RequestedDays) = 2
    /\ Len(ret.df) = 1

-----------------------------------------------------------------------------
(* Properties of the cache *)

\* the cache file of the fetch named by a call
KeyOf(c) == CacheFile(FamilyOf(c.op), c.arg.start_date, c.arg.end_date)

\* the client was asked for a day
AskedClient(t, family) == \E i \in 1..Len(t) : t[i].method = family

\* C23: a fetch with use_cache that finds a cache file under its key returns
\* the content of that file, also an empty one, and does not ask the client;
\* one that finds none asks the client and leaves its rows under the key
C23_HitSkipsRemote ==
    [][\A op \in FetchOps :
          (call'.op = op /\ ret'.exc = "none" /\ call'.arg.use_cache /\ cache.dir) =>
             IF KeyOf(call') \in DOMAIN cache.files
             THEN /\ ~AskedClient(trace', FamilyOf(op))
                  /\ ret'.df = RecordsFrame(cache.files[KeyOf(call')])
             ELSE /\ AskedClient(trace', FamilyOf(op))
                  /\ KeyOf(call') \in DOMAIN cache'.files]_vars

\* the cache file of the fetch whose loop is entered
KeyOfFrame(f) == CacheFile(f.family, f.start_date, f.end_date)

\* C30: with a cache directory, a fetch that went through its loop has written
\* its cache file once, as the last thing after the last day, with the rows of
\* the days that succeeded; a call with use_cache finding rows in that file
\* returns these rows without asking the client, and a call with use_cache
\* enters the loop again only when the file is missing or holds no row
C30_CachedOnceThenServed ==
    /\ [](LoopReturned /\ cache.dir =>
            /\ Len(SelectSeq(trace, LAMBDA e : e.method = "_cache_result")) = 1
            /\ Len(RequestedDays) = Len(DaysOfRange)
            /\ cache.files[KeyOf(call)] = RowsOfRange)
    /\ [][frame.pc = "idle" /\ cache.dir =>
            /\ (frame'.pc = "while" /\ frame'.use_cache
                    /\ KeyOfFrame(frame') \in DOMAIN cache.files)
                  => cache.files[KeyOfFrame(frame')] = << >>
            /\ (frame'.pc = "idle" /\ call'.op \in FetchOps /\ ret'.exc = "none"
                    /\ call'.arg.use_cache /\ KeyOf(call') \in DOMAIN cache.files)
                  => /\ cache.files[KeyOf(call')] # << >>
                     /\ ~AskedClient(trace', FamilyOf(call'.op))
                     /\ ret'.df = RecordsFrame(cache.files[KeyOf(call')])
                     /\ cache.files[KeyOf(call')] = RowsOfRange']_vars

\* a later call over two days, of which the first failed, was served the row
\* of the second day from the cache
C30_Witness ==
    /\ frame.pc = "idle"
    /\ call.op \in FetchOps
    /\ call.arg.use_cache
    /\ trace = <<Event("_get_from_cache", KeyOf(call))>>
    /\ Len(DaysOfRange) = 2
    /\ remote.days[1] = Raises
    /\ Len(ret.df) = 1

-----------------------------------------------------------------------------
(* Properties of the repository of snapshots (SpecRepo) *)

\* the snapshot of a family and user that was written last
Newest(data_type, user_id) ==
    CHOOSE p \in UserFiles(storage, data_type, user_id) :
        \A q \in UserFiles(storage, data_type, user_id) : storage[q].mtime <= storage[p].mtime

\* C22: every save_data call adds one new snapshot file and neither overwrites
\* nor removes a snapshot that exists, so n saves leave n snapshots, also when
\* they fall within the same second
C22_EverySaveAddsAFile ==
    [][(call'.op = "save_data" /\ (call' # call \/ storage' # storage))
          => /\ Cardinality(DOMAIN storage') = Cardinality(DOMAIN storage) + 1
             /\ \A p \in DOMAIN storage : p \in DOMAIN storage' /\ storage'[p] = storage[p]]_vars

\* C26: after any sequence of save_data calls, load_data without a time stamp
\* returns the rows of the snapshot of that family and user that was saved
\* last, which holds the rows of the last save
C26_LoadReturnsLatestSave ==
    /\ call.op = "save_data"
          => storage[Newest(call.arg.data_type, call.arg.user_id)].data
                = DefaultStr(call.arg.data)
    /\ (/\ call.op = "load_data"
        /\ call.arg.timestamp = None
        /\ UserFiles(storage, call.arg.data_type, call.arg.user_id) # {})
          => /\ ret.path = Newest(call.arg.data_type, call.arg.user_id).name
             /\ ret.df = storage[Newest(call.arg.data_type, call.arg.user_id)].data

\* two snapshots with different rows, written at 12:00:09 and 12:00:10, and
\* load_data has returned the rows of the later one
C26_Witness ==
    /\ call.op = "load_data"
    /\ call.arg.timestamp = None
    /\ \E p, q \in UserFiles(storage, call.arg.data_type, call.arg.user_id) :
          /\ storage[p].mtime = 9
          /\ storage[q].mtime = 10
          /\ storage[p].data # storage[q].data
          /\ ret.df = storage[q].data

\* C29: every snapshot save_data wrote for a user is reported by
\* list_available_data for that user, under its data type
C29_EverySnapshotListed ==
    call.op = "list_available_data"
      => \A p \in DOMAIN storage :
            p.user = (IF call.arg.user_id = "None" THEN "default" ELSE call.arg.user_id)
              => /\ p.data_type \in DOMAIN ret.df
                 /\ p.name \in Range(ret.df[p.data_type])

-----------------------------------------------------------------------------
(* Properties of the connection and of get_activity_details_for_all (SpecDetails) *)

\* the call returned what the cache file of all details held, asking for nothing else
ServedFromCache ==
    /\ call'.op = "get_activity_details_for_all"
    /\ cache.dir
    /\ <<"activity_details_all", ".json">> \in DOMAIN cache.files
    /\ ret'.exc = "none"
    /\ ret'.df # << >>
    /\ ret'.df = cache.files[<<"activity_details_all", ".json">>]
    /\ trace' = <<Event("_get_from_cache", <<"activity_details_all", ".json">>)>>

\* C24: the cache key of a result is determined by the metric, the date range
\* and the limit; a get_activity_details_for_all call that follows one with a
\* different limit or a different activities table is not served the result
\* that call cached
C24_OtherRequestNotServedFromCache ==
    [][(/\ call.op = "get_activity_details_for_all"
        /\ call'.op = "get_activity_details_for_all"
        /\ trace # << >>
        /\ trace[Len(trace)] = Event("_cache_result", <<"activity_details_all", ".json">>)
        /\ \/ call'.arg.limit # call.arg.limit
           \/ call'.arg.given # call.arg.given
           \/ call'.arg.count # call.arg.count
           \/ call'.arg.with_id # call.arg.with_id)
          => ~ServedFromCache]_vars

\* C27: a get_* call made while the connector is not connected raises
\* ValueError without reading the cache or asking the client; connected turns
\* true only when a login succeeded, turns false when a login failed, and
\* implies that the client is set
C27_NotConnectedRaises ==
    /\ [](connected => client # "None")
    /\ [][(/\ call'.op \in {"get_heart_rates", "get_activity_details_for_all"}
            /\ (client = "None" \/ ~connected))
              => /\ ret'.exc = "ValueError"
                 /\ trace' = << >>
                 /\ cache' = cache]_vars
    /\ [][(connected' /\ ~connected)
              => (call'.op = "connect" /\ ret'.exc = "none")]_vars
    /\ [][(call'.op = "connect" /\ ret'.exc = "Exception") => ~connected']_vars

\* after a login that failed, with the client made, a getter has raised ValueError
C27_Witness ==
    /\ call.op \in {"get_heart_rates", "get_activity_details_for_all"}
    /\ client = "Garmin"
    /\ ~connected
    /\ cache.dir
    /\ ret.exc = "ValueError"
    /\ trace = << >>

-----------------------------------------------------------------------------
(* Properties of the time stamp conversion (SpecValues) *)

\* C25: a time stamp column that pd.to_datetime cannot convert never fails the
\* parse of any of the four families: the table is returned with every row of
\* the file and with the column as it was
C25_CoercionFailureKeepsRows ==
    (/\ Parsed
     /\ ret.path \in DOMAIN files
     /\ files[ret.path].kind = "rows"
     /\ \E i \in 1..Len(SourceRows) :
           \E c \in {"timestamp", "calendarDate", "startTimeLocal"} \cap DOMAIN SourceRows[i] :
               SourceRows[i][c] = Unparseable)
      => /\ ret.exc = "none"
         /\ Len(ret.df) = Len(SourceRows)
         /\ \A i \in 1..Len(SourceRows) :
               \A c \in {"timestamp", "calendarDate", "startTimeLocal"}
                        \cap DOMAIN SourceRows[i] :
                   ret.df[i][c] = SourceRows[i][c]

-----------------------------------------------------------------------------
(* Properties of the activities without an id (Spec) *)

\* C28: the deduplication of activities removes a row only if an earlier row
\* has the same activityId: every object without an activityId is a row of
\* the aggregated table, also when several of them come from different files
C28_IdlessRowsKept ==
    Aggregated =>
        \A k \in 1..Len(SourceActivities) :
            ~HasId(SourceActivities[k])
              => \E i \in 1..Len(ActivitiesTable) :
                    ActivitiesTable[i] = Fill(SourceActivities[k], Columns(ActivitiesTable))

====
